---- MODULE Spec2Model ----
(***************************************************************************)
(* A model of the sRPC call-capture and dispatch engine:                   *)
(*   - the client batching link (packages/core/src/client/httpBatchLink.ts)*)
(*   - the server dispatcher    (packages/core/src/server/api.ts)          *)
(*   - the server batch endpoint (packages/core/src/server/batch.ts)       *)
(*   - the request/response adapter (packages/core/src/server/fetch.ts)    *)
(*                                                                         *)
(* Strings that the code splits on "." (paths, router keys) are modelled   *)
(* as sequences of segment names: <<"users","getUser">> is the string      *)
(* "users.getUser".  Values that travel as data, and the messages of       *)
(* errors, are sequences of strings (<<>> is the empty string).            *)
(***************************************************************************)
EXTENDS Integers, Sequences, FiniteSets, TLC

---------------------------------------------------------------------------
(* Bounds of the model *)

\* number of calls one link instance captures in a behaviour
MaxCalls == 3
\* largest maxBatchSize option a link instance is configured with
MaxBatchCfg == 3
\* longest response list a batch transport hands back to the link
MaxRespLen == 2
\* longest requests list a batch request to the server carries
MaxBatchLen == 3
\* most calls a client makes in one batch window of a round trip
MaxRtCalls == 2
\* longest chain of names accessed on an intercepted value
MaxPathLen == 2
\* most invocations of the handler, and of the flat callback, in a behaviour
MaxProxyCalls == 1
\* most SRPC instances a program constructs
MaxRouters == 3
\* most segments of a path given to getRoute
MaxSegments == 3
\* the longest pathname of a request, in tokens
MaxUrlLen == 5

---------------------------------------------------------------------------
(* Typed errors: shared/index.ts *)

ErrorCodes ==
  {"NOT_FOUND", "FORBIDDEN", "UNAUTHORIZED", "INTERNAL_SERVER_ERROR",
   "BAD_REQUEST", "NOT_IMPLEMENTED", "UNSUPPORTED_MEDIA_TYPE", "GENERIC_ERROR"}

\* new SRPCError(message, code)
SRPCError(message, code) == [message |-> message, code |-> code]

NoError == [message |-> <<>>, code |-> ""]
NoData == <<>>
\* the value undefined where it travels as data
UndefinedData == <<"undefined">>

---------------------------------------------------------------------------
(* The batching link: client/httpBatchLink.ts *)

VARIABLES
  maxBatchSize,      \* the maxBatchSize option of the instance
  pendingRequests,   \* let pendingRequests: PendingRequest[]
  timeoutId,         \* let timeoutId (0 is null, else the armed handle)
  requestIdCounter,  \* let requestIdCounter
  timers,            \* handles the host will still fire (setTimeout queue)
  batches,           \* one record per flush that took a non-empty snapshot:
                     \* the snapshot, where the flush stands, what started
                     \* it and the transport requests it issued via fetchFn
  settled,           \* per call id: the resolve/reject invocations, in order
  lastResponses      \* the response list decoded by the step just taken

linkVars == <<maxBatchSize, pendingRequests, timeoutId, requestIdCounter,
              timers, batches, settled, lastResponses>>

\* One inbound request at the request/response adapter (server/fetch.ts);
\* requests share nothing but the router, so one is followed at a time.
VARIABLES
  srvPc,        \* where fetch(req) stands: "idle", "context", "exec", "done"
  srvReq,       \* the request: its route, path, decoded body
  srvCtx,       \* what createContext produced
  srvHooks,     \* how many times createContext has been called
  srvInvoked,   \* the functions invoked so far, each with its arguments
  srvResults,   \* per call started: its settlement, or Pending
  srvResponse   \* the Response fetch(req) completed with

srvVars == <<srvPc, srvReq, srvCtx, srvHooks, srvInvoked, srvResults, srvResponse>>

\* One round trip of a client built by createSRPCClient: its calls go over
\* HTTP to the adapter and come back through the direct link or through a
\* batching link.
VARIABLES
  rtPc,         \* "idle", "sent" (the request is with the server), "done"
  rtLink,       \* "direct" or "batch"
  rtCalls,      \* the calls of the round trip, each with path and args
  rtOutcomes,   \* per call: how the caller's promise settled
  rtWire        \* what the client's fetch gave: <<>> before, then one value

rtVars == <<rtPc, rtLink, rtCalls, rtOutcomes, rtWire>>

\* A program that uses the call interceptors of shared/proxy.ts: it holds
\* one intercepted value at a time, starting from the root value that
\* createRecursiveProxy(handler) returned, and a flat interceptor
\* createFlatProxy(callback).
VARIABLES
  pxPath,       \* the path accumulated in the value the program holds
  pxNames,      \* the names the program accessed from the root to get it
  pxCalls,      \* the records the handler was invoked with, in order
  pxFlatCalls,  \* the names the flat interceptor's callback was invoked with
  pxOp,         \* the operation the program performed last
  pxLast        \* what that operation evaluated to

pxVars == <<pxPath, pxNames, pxCalls, pxFlatCalls, pxOp, pxLast>>

\* A program that builds routers with initSRPC, context and router, and
\* looks names up in them.
VARIABLES
  routers,      \* the SRPC instances constructed so far, in order
  bldOp         \* the operation the program performed last and its result

bldVars == <<routers, bldOp>>

\* Resolutions of paths by getRoute, one at a time.
VARIABLES
  resolved      \* the router and path of the latest resolution, and its result

rsVars == <<resolved>>

\* The routing of a request by fetch of srpcFetchApi.
VARIABLES
  routed        \* the options, the pathname, and the branch fetch took

urlVars == <<routed>>

\* A program that keeps an intercepted value and returns to it later.
VARIABLES
  pxKept        \* the value the program keeps: its path, and the names the
                \* program had accessed from the root when it kept it

chVars == <<pxKept>>

vars == <<linkVars, srvVars, rtVars, pxVars, bldVars, rsVars, urlVars, chVars>>

\* property keys: strings and symbols
Key(t, n) == [t |-> t, n |-> n]

\* what an operation on an intercepted value evaluates to: another
\* intercepted value (with its path), undefined, a string, the tagged
\* object {__type, path, pathString}, or what the handler returned
Value(kind, tag, path, text, args) ==
  [kind |-> kind, tag |-> tag, path |-> path, text |-> text, args |-> args]
UndefinedValue == Value("undefined", "", <<>>, <<>>, <<>>)
Intercepted(path) == Value("proxy", "", path, <<>>, <<>>)

Operation(op, key, args) == [op |-> op, key |-> key, args |-> args]
NoKey == Key("none", "")

\* the interceptors are created; nothing has been accessed
PxInit ==
  /\ pxPath = <<>>
  /\ pxNames = <<>>
  /\ pxCalls = <<>>
  /\ pxFlatCalls = <<>>
  /\ pxOp = Operation("create", NoKey, <<>>)
  /\ pxLast = Intercepted(<<>>)

\* what a builder operation did: the instance it was called on, the
\* instance it returned (0: none), the value a lookup read
BldOperation(op, on, ref, value) == [op |-> op, on |-> on, ref |-> ref, value |-> value]

\* no SRPC instance has been constructed
BldInit ==
  /\ routers = <<>>
  /\ bldOp = BldOperation("none", 0, 0, {})

\* nothing has been resolved
RsInit == resolved = [router |-> "none", path |-> <<>>, route |-> [t |-> "none", n |-> ""]]

\* the program keeps no intercepted value
ChInit == pxKept = [held |-> FALSE, path |-> <<>>, names |-> <<>>]

\* no request has been routed
UrlInit ==
  routed = [endpoint |-> <<>>, batchEndpoint |-> <<>>, pathname |-> <<>>,
            branch |-> "none", path |-> <<>>]

\* no call has been made through the client
RtIdle ==
  /\ rtPc = "idle"
  /\ rtLink = "none"
  /\ rtCalls = <<>>
  /\ rtOutcomes = <<>>
  /\ rtWire = <<>>

\* the calls the client program makes through the link, in program order
\* ({path: path.join("."), args} of each)
ClientCalls ==
  [i \in 1..(MaxCalls + 1) |->
     IF i % 2 = 1 THEN [path |-> <<"sayHello">>, args |-> <<"A">>]
     ELSE [path |-> <<"failingProcedure">>, args |-> <<>>]]

\* the URL `${endpoint}${batchEndpoint}`
BatchUrl == <<"endpoint", "batchEndpoint">>

\* payloads a transport may put into a response item
RespData == {<<"d1">>}
RespErrors == {SRPCError(<<"Failed">>, "BAD_REQUEST")}

OkItem(i, d) ==
  [id |-> i, ok |-> TRUE, data |-> d, hasError |-> FALSE, error |-> NoError]
ErrItem(i, e) ==
  [id |-> i, ok |-> FALSE, data |-> NoData, hasError |-> TRUE, error |-> e]
BareItem(i) ==
  [id |-> i, ok |-> FALSE, data |-> NoData, hasError |-> FALSE, error |-> NoError]

\* the BatchResponseItem values the model's transports produce for request i
RespItemsFor(i) ==
  {OkItem(i, d) : d \in RespData} \cup {ErrItem(i, e) : e \in RespErrors}
    \cup {BareItem(i)}

\* an id no request of the link carries
ForeignId == 0

SeqsUpTo(S, n) == UNION {[1..k -> S] : k \in 0..n}

\* what the awaits of flush can throw: a typed error, or any other value
\* (which has a message and no code)
Thrown ==
  {[typed |-> TRUE, error |-> SRPCError(<<"denied">>, "UNAUTHORIZED")],
   [typed |-> FALSE, error |-> SRPCError(<<"network down">>, "")]}

\* status texts of the non-success responses the model's transports produce
StatusTexts == {<<>>, <<"Bad Request">>}

\* events recorded in `settled`
Resolve(data, b) == [kind |-> "resolve", data |-> data, error |-> NoError, batch |-> b]
Reject(error, b) == [kind |-> "reject", data |-> NoData, error |-> error, batch |-> b]

\* the ids of a snapshot
IdsOf(reqs) == {reqs[k].id : k \in 1..Len(reqs)}

\* responseMap.has(id) for new Map(responses.map((r) => [r.id, r]))
MapHas(responses, id) == \E i \in 1..Len(responses) : responses[i].id = id

\* responseMap.get(id): a later entry with the same key replaces an earlier one
MapGet(responses, id) ==
  responses[CHOOSE i \in 1..Len(responses) :
              /\ responses[i].id = id
              /\ \A j \in (i+1)..Len(responses) : responses[j].id # id]

\* (variant: responses.find((r) => r.id === req.id), the first match)
SettleFirstMatch(req, responses, b) ==
  IF ~MapHas(responses, req.id)
    THEN Reject(SRPCError(<<"Missing response for request">>, "GENERIC_ERROR"), b)
    ELSE LET res == responses[CHOOSE i \in 1..Len(responses) :
                                /\ responses[i].id = req.id
                                /\ \A j \in 1..(i-1) : responses[j].id # req.id]
         IN
         IF res.ok THEN Resolve(res.data, b)
         ELSE IF res.hasError
           THEN Reject(SRPCError(res.error.message, res.error.code), b)
           ELSE Reject(SRPCError(<<"Unknown response format">>, "GENERIC_ERROR"), b)

\* the body of the fan-out loop for one request of the snapshot
SettleFromResponse(req, responses, b) ==
  IF ~MapHas(responses, req.id)
    THEN Reject(SRPCError(<<"Missing response for request">>, "GENERIC_ERROR"), b)
    ELSE LET res == MapGet(responses, req.id) IN
         IF res.ok THEN Resolve(res.data, b)
         ELSE IF res.hasError
           THEN Reject(SRPCError(res.error.message, res.error.code), b)
           ELSE Reject(SRPCError(<<"Unknown response format">>, "GENERIC_ERROR"), b)

\* (variant: the catch block wraps whatever was thrown)
CatchErrorAlwaysWraps(thrown) ==
  SRPCError(thrown.error.message, "INTERNAL_SERVER_ERROR")

\* the catch block: error instanceof SRPCError ? error : new SRPCError(...)
CatchError(thrown) ==
  IF thrown.typed THEN thrown.error
  ELSE SRPCError(thrown.error.message, "INTERNAL_SERVER_ERROR")

\* the !response.ok branch: response.statusText || "Batch request failed"
StatusError(statusText) ==
  SRPCError(IF statusText = <<>> THEN <<"Batch request failed">> ELSE statusText,
            "GENERIC_ERROR")

\* batch.forEach((req) => req.reject(error))
RejectAll(b, error) ==
  [i \in DOMAIN settled |->
     IF i \in IdsOf(batches[b].reqs)
       THEN Append(settled[i], Reject(error, b))
       ELSE settled[i]]

\* (variant: the loop visits the requests of every snapshot, not only those
\* of the flush that got the response)
FanOutEverySnapshot(b, responses) ==
  [i \in DOMAIN settled |->
     IF \E c \in 1..Len(batches) : i \in IdsOf(batches[c].reqs)
       THEN Append(settled[i], SettleFromResponse([id |-> i], responses, b))
       ELSE settled[i]]

\* for (const req of batch) { ... }: every request of the snapshot is settled
FanOut(b, responses) ==
  [i \in DOMAIN settled |->
     IF i \in IdsOf(batches[b].reqs)
       THEN Append(settled[i],
              SettleFromResponse(
                batches[b].reqs[CHOOSE k \in 1..Len(batches[b].reqs) :
                                  batches[b].reqs[k].id = i],
                responses, b))
       ELSE settled[i]]

NoResponses == [batch |-> 0, responses |-> <<>>]

\* how a flush ended when its transport failed: the await that failed
\* ("headers", "fetch", "text"), or "status" for a non-success response,
\* and what was thrown or the status text
NoCause == [typed |-> FALSE, error |-> NoError]
Failed(batch, at, cause) ==
  [batch EXCEPT !.stage = "failed", !.failedAt = at, !.cause = cause]

\* (variant: the buffer is not cleared when the snapshot is taken)
flushKeepsBuffer(pend, tms, trigger) ==
  /\ timers' = IF timeoutId # 0 THEN tms \ {timeoutId} ELSE tms
  /\ timeoutId' = 0
  /\ pendingRequests' = pend
  /\ batches' = IF pend = <<>> THEN batches
                ELSE Append(batches, [reqs |-> pend, stage |-> "headers",
                                      trigger |-> trigger, sent |-> <<>>,
                                      failedAt |-> "", cause |-> NoCause])

\* (variant: flush leaves the timer and its handle as they are)
flushKeepsTimer(pend, tms, trigger) ==
  /\ timers' = tms
  /\ timeoutId' = timeoutId
  /\ pendingRequests' = <<>>
  /\ batches' = IF pend = <<>> THEN batches
                ELSE Append(batches, [reqs |-> pend, stage |-> "headers",
                                      trigger |-> trigger, sent |-> <<>>,
                                      failedAt |-> "", cause |-> NoCause])

\* the synchronous part of flush(), up to its first await
flush(pend, tms, trigger) ==
  /\ timers' = IF timeoutId # 0 THEN tms \ {timeoutId} ELSE tms
  /\ timeoutId' = 0
  /\ pendingRequests' = <<>>
  /\ batches' = IF pend = <<>> THEN batches
                ELSE Append(batches, [reqs |-> pend, stage |-> "headers",
                                      trigger |-> trigger, sent |-> <<>>,
                                      failedAt |-> "", cause |-> NoCause])

\* (variant: the size test is > instead of >=)
CaptureOffByOne ==
  /\ requestIdCounter < MaxCalls
  /\ LET id == requestIdCounter + 1
         pend == Append(pendingRequests,
                        [id |-> id, path |-> ClientCalls[id].path,
                         args |-> ClientCalls[id].args])
     IN /\ requestIdCounter' = id
        /\ settled' = [i \in 1..id |-> IF i = id THEN <<>> ELSE settled[i]]
        /\ IF Len(pend) > maxBatchSize
             THEN flush(pend, timers, "size")
             ELSE /\ pendingRequests' = pend
                  /\ IF timeoutId = 0
                       THEN /\ timeoutId' = id
                            /\ timers' = timers \cup {id}
                       ELSE UNCHANGED <<timeoutId, timers>>
                  /\ UNCHANGED batches
  /\ lastResponses' = NoResponses
  /\ UNCHANGED maxBatchSize
  /\ UNCHANGED <<srvVars, rtVars, pxVars, bldVars, rsVars, urlVars, chVars>>

\* (variant: a call captured while the latest batch still awaits its
\* headers joins that batch)
CaptureCoalesces ==
  /\ requestIdCounter < MaxCalls
  /\ LET id == requestIdCounter + 1
         req == [id |-> id, path |-> ClientCalls[id].path,
                 args |-> ClientCalls[id].args]
         pend == Append(pendingRequests, req)
     IN /\ requestIdCounter' = id
        /\ settled' = [i \in 1..id |-> IF i = id THEN <<>> ELSE settled[i]]
        /\ IF batches # <<>> /\ batches[Len(batches)].stage = "headers"
             THEN /\ batches' = [batches EXCEPT ![Len(batches)].reqs = Append(@, req)]
                  /\ UNCHANGED <<pendingRequests, timeoutId, timers>>
           ELSE IF Len(pend) >= maxBatchSize
             THEN flush(pend, timers, "size")
             ELSE /\ pendingRequests' = pend
                  /\ IF timeoutId = 0
                       THEN /\ timeoutId' = id
                            /\ timers' = timers \cup {id}
                       ELSE UNCHANGED <<timeoutId, timers>>
                  /\ UNCHANGED batches
  /\ lastResponses' = NoResponses
  /\ UNCHANGED maxBatchSize
  /\ UNCHANGED <<srvVars, rtVars, pxVars, bldVars, rsVars, urlVars, chVars>>

\* the link function: one captured call
Capture ==
  /\ requestIdCounter < MaxCalls
  /\ LET id == requestIdCounter + 1
         pend == Append(pendingRequests,
                        [id |-> id, path |-> ClientCalls[id].path,
                         args |-> ClientCalls[id].args])
     IN /\ requestIdCounter' = id
        /\ settled' = [i \in 1..id |-> IF i = id THEN <<>> ELSE settled[i]]
        /\ IF Len(pend) >= maxBatchSize
             THEN flush(pend, timers, "size")
             ELSE /\ pendingRequests' = pend
                  /\ IF timeoutId = 0
                       THEN /\ timeoutId' = id
                            /\ timers' = timers \cup {id}
                       ELSE UNCHANGED <<timeoutId, timers>>
                  /\ UNCHANGED batches
  /\ lastResponses' = NoResponses
  /\ UNCHANGED maxBatchSize
  /\ UNCHANGED <<srvVars, rtVars, pxVars, bldVars, rsVars, urlVars, chVars>>

\* (variant: the timer callback only clears the handle)
TimerFireNoFlush ==
  \E t \in timers :
    /\ timers' = timers \ {t}
    /\ timeoutId' = 0
    /\ lastResponses' = NoResponses
    /\ UNCHANGED <<maxBatchSize, pendingRequests, requestIdCounter, batches,
                   settled>>
                   /\ UNCHANGED <<srvVars, rtVars, pxVars, bldVars, rsVars, urlVars, chVars>>

\* the host fires an armed timer: setTimeout(flush, batchWindowMs)
TimerFire ==
  \E t \in timers :
    /\ flush(pendingRequests, timers \ {t}, "timer")
    /\ lastResponses' = NoResponses
    /\ UNCHANGED <<maxBatchSize, requestIdCounter, settled>>
    /\ UNCHANGED <<srvVars, rtVars, pxVars, bldVars, rsVars, urlVars, chVars>>

\* (variant: one transport request per call of the snapshot)
HeadersDonePerCall(b) ==
  /\ b \in 1..Len(batches)
  /\ batches[b].stage = "headers"
  /\ batches' = [batches EXCEPT
                   ![b].stage = "fetch",
                   ![b].sent = [k \in 1..Len(batches[b].reqs) |->
                                  [url |-> <<"endpoint">> \o batches[b].reqs[k].path,
                                   method |-> "POST",
                                   requests |-> <<batches[b].reqs[k]>>]]]
  /\ lastResponses' = NoResponses
  /\ UNCHANGED <<maxBatchSize, pendingRequests, timeoutId, requestIdCounter,
                 timers, settled>>
                 /\ UNCHANGED <<srvVars, rtVars, pxVars, bldVars, rsVars, urlVars, chVars>>

\* (variant: the envelope lists the snapshot's requests last first)
HeadersDoneReversed(b) ==
  /\ b \in 1..Len(batches)
  /\ batches[b].stage = "headers"
  /\ LET reqs == batches[b].reqs IN
       batches' = [batches EXCEPT
                     ![b].stage = "fetch",
                     ![b].sent = Append(@, [url |-> BatchUrl, method |-> "POST",
                                            requests |-> [k \in 1..Len(reqs) |->
                                                            reqs[Len(reqs) + 1 - k]]])]
  /\ lastResponses' = NoResponses
  /\ UNCHANGED <<maxBatchSize, pendingRequests, timeoutId, requestIdCounter,
                 timers, settled>>
  /\ UNCHANGED <<srvVars, rtVars, pxVars, bldVars, rsVars, urlVars, chVars>>

\* (variant: the envelope is built from the buffer as it is when fetchFn
\* is called, not from the snapshot)
HeadersDoneFromBuffer(b) ==
  /\ b \in 1..Len(batches)
  /\ batches[b].stage = "headers"
  /\ \/ /\ batches' = [batches EXCEPT
                         ![b].stage = "fetch",
                         ![b].sent = Append(@, [url |-> BatchUrl, method |-> "POST",
                                                requests |-> pendingRequests])]
        /\ UNCHANGED settled
     \/ \E thrown \in Thrown :
          /\ batches' = [batches EXCEPT ![b] = Failed(@, "headers", thrown)]
          /\ settled' = RejectAll(b, CatchError(thrown))
  /\ lastResponses' = NoResponses
  /\ UNCHANGED <<maxBatchSize, pendingRequests, timeoutId, requestIdCounter,
                 timers>>
  /\ UNCHANGED <<srvVars, rtVars, pxVars, bldVars, rsVars, urlVars, chVars>>

\* await getHeaders?.() completes, then fetchFn is called
HeadersDone(b) ==
  /\ b \in 1..Len(batches)
  /\ batches[b].stage = "headers"
  /\ \/ /\ batches' = [batches EXCEPT
                         ![b].stage = "fetch",
                         ![b].sent = Append(@, [url |-> BatchUrl, method |-> "POST",
                                                requests |-> batches[b].reqs])]
        /\ UNCHANGED settled
     \/ \E thrown \in Thrown :
          /\ batches' = [batches EXCEPT ![b] = Failed(@, "headers", thrown)]
          /\ settled' = RejectAll(b, CatchError(thrown))
  /\ lastResponses' = NoResponses
  /\ UNCHANGED <<maxBatchSize, pendingRequests, timeoutId, requestIdCounter,
                 timers>>
                 /\ UNCHANGED <<srvVars, rtVars, pxVars, bldVars, rsVars, urlVars, chVars>>

\* await fetchFn(...) completes: a response, or a rejection
FetchDone(b) ==
  /\ b \in 1..Len(batches)
  /\ batches[b].stage = "fetch"
  /\ \/ /\ batches' = [batches EXCEPT ![b].stage = "text"]
        /\ UNCHANGED settled
     \/ \E statusText \in StatusTexts :
          /\ batches' = [batches EXCEPT ![b] =
                           Failed(@, "status", [typed |-> FALSE,
                                                error |-> SRPCError(statusText, "")])]
          /\ settled' = RejectAll(b, StatusError(statusText))
     \/ \E thrown \in Thrown :
          /\ batches' = [batches EXCEPT ![b] = Failed(@, "fetch", thrown)]
          /\ settled' = RejectAll(b, CatchError(thrown))
  /\ lastResponses' = NoResponses
  /\ UNCHANGED <<maxBatchSize, pendingRequests, timeoutId, requestIdCounter,
                 timers>>
                 /\ UNCHANGED <<srvVars, rtVars, pxVars, bldVars, rsVars, urlVars, chVars>>

\* the response lists the model's transports answer a snapshot with
ResponseLists(reqs) ==
  SeqsUpTo(UNION {RespItemsFor(i) : i \in IdsOf(reqs)}
             \cup {OkItem(ForeignId, d) : d \in RespData},
           MaxRespLen)

\* await response.text() completes; deserialize, build the map, fan out
TextDone(b) ==
  /\ b \in 1..Len(batches)
  /\ batches[b].stage = "text"
  /\ \/ \E responses \in ResponseLists(batches[b].reqs) :
          /\ batches' = [batches EXCEPT ![b].stage = "fannedOut"]
          /\ settled' = FanOut(b, responses)
          /\ lastResponses' = [batch |-> b, responses |-> responses]
     \/ \E thrown \in {t \in Thrown : ~t.typed} :
          \* text() rejects, deserialize throws, or the body has no list
          /\ batches' = [batches EXCEPT ![b] = Failed(@, "text", thrown)]
          /\ settled' = RejectAll(b, CatchError(thrown))
          /\ lastResponses' = NoResponses
  /\ UNCHANGED <<maxBatchSize, pendingRequests, timeoutId, requestIdCounter,
                 timers>>
                 /\ UNCHANGED <<srvVars, rtVars, pxVars, bldVars, rsVars, urlVars, chVars>>

LinkInit ==
  /\ maxBatchSize \in 1..MaxBatchCfg
  /\ pendingRequests = <<>>
  /\ timeoutId = 0
  /\ requestIdCounter = 0
  /\ timers = {}
  /\ batches = <<>>
  /\ settled = <<>>
  /\ lastResponses = NoResponses

LinkNext ==
  \/ Capture
  \/ TimerFire
  \/ \E b \in 1..MaxCalls : HeadersDone(b)
  \/ \E b \in 1..MaxCalls : FetchDone(b)
  \/ \E b \in 1..MaxCalls : TextDone(b)

---------------------------------------------------------------------------
(* The router tree and the dispatcher: server/api.ts *)

\* JavaScript values the dispatcher meets while it resolves a path
Val(t, n) == [t |-> t, n |-> n]
Fn(n) == Val("fn", n)            \* a procedure registered in a router
Srpc(n) == Val("srpc", n)        \* an SRPC instance (a nested router)
RoutesOf(n) == Val("routes", n)  \* the plain object passed to router({...})
Builtin(n) == Val("builtin", n)  \* a function inherited from Object.prototype
ObjectPrototype == Val("proto", "")
Undefined == Val("undefined", "")
Null == Val("null", "")

Truthy(v) == v.t \notin {"undefined", "null"}
IsFunction(v) == v.t \in {"fn", "builtin"}    \* typeof v === "function"
IsObject(v) == v.t \in {"routes", "proto", "srpc"}  \* typeof v === "object"

\* the routers of test-router.ts, each with the mapping it was built from,
\* with whoami of its context-aware router, one procedure that throws a
\* value that is no SRPCError, and one whose typed error has a message of
\* two lines
Routes(r) ==
  IF r = "dotted"
    THEN (<<"users", "getUser">> :> Fn("users.getUser"))
           @@ (<<"users", "list">> :> Fn("users.list"))
           @@ (<<"users">> :> Srpc("users"))
           @@ (<<"sayHello">> :> Fn("sayHello"))
  ELSE IF r = "root"
    THEN (<<"sayHello">> :> Fn("sayHello"))
           @@ (<<"failingProcedure">> :> Fn("failingProcedure"))
           @@ (<<"throwing">> :> Fn("throwing"))
           @@ (<<"whoami">> :> Fn("whoami"))
           @@ (<<"failingMultiline">> :> Fn("failingMultiline"))
           @@ (<<"failingWith">> :> Fn("failingWith"))
           @@ (<<"test">> :> Fn("test"))
           @@ (<<"users">> :> Srpc("users"))
  ELSE IF r = "users"
    THEN (<<"getUser">> :> Fn("getUser")) @@ (<<"admin">> :> Srpc("admin"))
  ELSE (<<"createUser">> :> Fn("createUser"))

\* property names every plain object inherits from Object.prototype
ProtoFunctions == {"toString", "hasOwnProperty"}
ProtoKeys == ProtoFunctions \cup {"__proto__"}

\* key in obj
In(obj, key) ==
  \/ obj.t = "routes" /\ key \in DOMAIN Routes(obj.n)
  \/ obj.t \in {"routes", "proto"} /\ Len(key) = 1 /\ key[1] \in ProtoKeys

\* obj[key]: own properties first, then the prototype chain
Get(obj, key) ==
  IF obj.t = "routes" /\ key \in DOMAIN Routes(obj.n) THEN Routes(obj.n)[key]
  ELSE IF obj.t \in {"routes", "proto"} /\ Len(key) = 1 /\ key[1] \in ProtoFunctions
    THEN Builtin(key[1])
  ELSE IF obj.t = "routes" /\ key = <<"__proto__">> THEN ObjectPrototype
  ELSE IF obj.t = "proto" /\ key = <<"__proto__">> THEN Null
  ELSE Undefined

\* (variant: a nested router is indexed like a plain object)
WalkStepPlainOnly(current, key) ==
  IF Truthy(current) /\ current.t \in {"routes", "proto"} /\ In(current, <<key>>)
    THEN Get(current, <<key>>)
  ELSE Null

\* one round of the loop `for (const key of pathParts)` of getRoute
WalkStep(current, key) ==
  IF Truthy(current) /\ current.t = "srpc"
    THEN Get(RoutesOf(current.n), <<key>>)
  ELSE IF Truthy(current) /\ IsObject(current) /\ In(current, <<key>>)
    THEN Get(current, <<key>>)
  ELSE Null

RECURSIVE Walk(_, _)
Walk(current, pathParts) ==
  IF pathParts = <<>> THEN current
  ELSE Walk(WalkStep(current, Head(pathParts)), Tail(pathParts))

\* (variant: only own properties of the mapping are looked up)
getRouteOwnOnly(path) ==
  IF path \in DOMAIN Routes("root") THEN Routes("root")[path]
  ELSE IF Len(path) > 1 THEN Walk(RoutesOf("root"), path)
  ELSE Undefined

\* (variant: a path with a "." is always resolved segment by segment)
getRouteWalksDotted(r, path) ==
  IF Len(path) > 1 THEN Walk(RoutesOf(r), path)
  ELSE Get(RoutesOf(r), path)

\* sRPC_API.getRoute of an sRPC_API whose router is r
getRouteIn(r, path) ==
  LET value == Get(RoutesOf(r), path) IN
  IF Truthy(value) THEN value
  ELSE IF Len(path) > 1 THEN Walk(RoutesOf(r), path)
  ELSE Get(RoutesOf(r), path)

\* sRPC_API.getRoute of the API over the root router
getRoute(path) == getRouteIn("root", path)

\* how a call settles: fulfilled with data, or rejected with a typed error
\* or with anything else
Fulfilled(data) == [kind |-> "ok", data |-> data, error |-> NoError]
RejectedTyped(error) == [kind |-> "typed", data |-> NoData, error |-> error]
RejectedOther(message) ==
  [kind |-> "untyped", data |-> NoData, error |-> SRPCError(message, "")]
Pending == [kind |-> "pending", data |-> NoData, error |-> NoError]

\* a line break inside a message
LineBreak == "LF"

\* (variant: the context is passed after the arguments)
ApplyContextLast(context, args) == args \o <<context>>

\* the argument list of route(context, ...deserializedArgs); values are
\* sequences of tokens
Apply(context, args) == <<context>> \o args

\* the k-th parameter of a function called with the list received
Param(received, k) == IF k <= Len(received) THEN received[k] ELSE UndefinedData

\* route(context, ...deserializedArgs) for the functions of the model
Invoke(route, context, args) ==
  LET received == Apply(context, args) IN
  IF route = Fn("sayHello") THEN Fulfilled(<<"Hello">> \o Param(received, 2))
  ELSE IF route = Fn("failingProcedure")
    THEN RejectedTyped(SRPCError(<<"This always fails">>, "BAD_REQUEST"))
  ELSE IF route = Fn("throwing") THEN RejectedOther(<<"boom">>)
  ELSE IF route = Fn("failingMultiline")
    THEN RejectedTyped(SRPCError(<<"Invalid input", LineBreak, "try again">>,
                                 "FORBIDDEN"))
  ELSE IF route = Fn("failingWith")
    THEN RejectedTyped(SRPCError(<<"raised">>, Param(received, 2)[1]))
  ELSE IF route = Fn("whoami") THEN Fulfilled(Param(received, 1))
  ELSE IF route = Fn("test") THEN Fulfilled(UndefinedData)
  ELSE IF route \in {Fn("getUser"), Fn("createUser")}
    THEN Fulfilled(<<"John Doe">> \o Param(received, 2))
  ELSE IF route = Builtin("toString") THEN Fulfilled(<<"[object Undefined]">>)
  ELSE RejectedOther(<<"Cannot convert undefined or null to object">>)

\* (variant: whatever the path resolves to is called unless it is missing)
callUnlessMissing(path, context, args) ==
  LET route == getRoute(path) IN
  IF ~Truthy(route)
    THEN [invoked |-> FALSE, fn |-> route,
          outcome |-> RejectedTyped(
                        SRPCError(<<"Route">> \o path \o <<"not found">>, "NOT_FOUND"))]
    ELSE [invoked |-> TRUE, fn |-> route, outcome |-> Invoke(route, context, args)]

\* sRPC_API.call: whether a function is invoked, which, and the settlement
call(path, context, args) ==
  LET route == getRoute(path) IN
  IF ~IsFunction(route)
    THEN [invoked |-> FALSE, fn |-> route,
          outcome |-> RejectedTyped(
                        SRPCError(<<"Route">> \o path \o <<"not found">>, "NOT_FOUND"))]
    ELSE [invoked |-> TRUE, fn |-> route, outcome |-> Invoke(route, context, args)]

\* StatusCodeMap of shared/index.ts
\* (variant: UNSUPPORTED_MEDIA_TYPE is answered as a bad request)
StatusCodeMapNo415(code) ==
  CASE code = "BAD_REQUEST" -> 400
    [] code = "NOT_FOUND" -> 404
    [] code = "FORBIDDEN" -> 403
    [] code = "UNAUTHORIZED" -> 401
    [] code = "INTERNAL_SERVER_ERROR" -> 500
    [] code = "NOT_IMPLEMENTED" -> 501
    [] code = "UNSUPPORTED_MEDIA_TYPE" -> 400
    [] code = "GENERIC_ERROR" -> 500

StatusCodeMap(code) ==
  CASE code = "BAD_REQUEST" -> 400
    [] code = "NOT_FOUND" -> 404
    [] code = "FORBIDDEN" -> 403
    [] code = "UNAUTHORIZED" -> 401
    [] code = "INTERNAL_SERVER_ERROR" -> 500
    [] code = "NOT_IMPLEMENTED" -> 501
    [] code = "UNSUPPORTED_MEDIA_TYPE" -> 415
    [] code = "GENERIC_ERROR" -> 500

---------------------------------------------------------------------------
(* The batch endpoint and the request/response adapter:
   server/batch.ts, server/fetch.ts *)

\* the default of handleBatchRequest's parameter maxBatchSize
DefaultMaxBatchSize == 100

\* maxBatchSize as handleBatchRequest receives it: the adapter leaves it at
\* the default, other callers pass their own
MaxBatchSizes == {MaxBatchLen - 1, DefaultMaxBatchSize}

\* decoded bodies: what serializer.deserialize(body) returns, or "garbage"
\* when it throws
Body(t, hasRequests, isList, requests) ==
  [t |-> t, hasRequests |-> hasRequests, isList |-> isList, requests |-> requests]
Garbage == Body("garbage", FALSE, FALSE, <<>>)
Envelope(requests) == Body("object", TRUE, TRUE, requests)
ArgsBody == Body("array", FALSE, FALSE, <<>>)

\* decoded bodies that are no batch envelope: null, a number, a bare list,
\* an object without requests, an object whose requests is no list
NonEnvelopes ==
  {Body("null", FALSE, FALSE, <<>>), Body("number", FALSE, FALSE, <<>>),
   ArgsBody, Body("object", FALSE, FALSE, <<>>), Body("object", TRUE, FALSE, <<>>)}

\* items of a requests list
Item(t, idT, id, pathT, path, argsT, args) ==
  [t |-> t, idT |-> idT, id |-> id, pathT |-> pathT, path |-> path,
   argsT |-> argsT, args |-> args]
ValidItem(id, c) == Item("object", "number", id, "string", c.path, "array", c.args)

\* the calls the model's batches carry: a procedure that succeeds, one that
\* raises a typed error, one that raises another exception, and a path
\* that is not registered
ItemCalls ==
  {[path |-> <<"sayHello">>, args |-> << <<"A">> >>],
   [path |-> <<"failingProcedure">>, args |-> <<>>],
   [path |-> <<"throwing">>, args |-> <<>>],
   [path |-> <<"nope">>, args |-> <<>>]}

\* a call whose path names a property of Object.prototype
PrototypeCall == [path |-> <<"toString">>, args |-> <<>>]

ValidItems ==
  {ValidItem(id, c) : id \in 1..MaxBatchLen, c \in ItemCalls}
    \cup {ValidItem(1, PrototypeCall)}

\* items the validation loop refuses: null, a number, a string id,
\* a missing path, args that is no list
InvalidItems ==
  {Item("null", "undefined", 0, "undefined", <<>>, "undefined", <<>>),
   Item("number", "undefined", 0, "undefined", <<>>, "undefined", <<>>),
   Item("object", "string", 1, "string", <<"sayHello">>, "array", << <<"A">> >>),
   Item("object", "number", 1, "undefined", <<>>, "array", << <<"A">> >>),
   Item("object", "number", 1, "string", <<"sayHello">>, "undefined", <<>>)}

BatchItems == ValidItems \cup InvalidItems

\* the checks of the loop `for (const req of requests)`, in their order
ItemError(req) ==
  IF req.t # "object"
    THEN SRPCError(<<"Invalid batch request item">>, "BAD_REQUEST")
  ELSE IF req.idT # "number" \/ req.pathT # "string"
    THEN SRPCError(<<"Batch item must have id and path">>, "BAD_REQUEST")
  ELSE IF req.argsT # "array"
    THEN SRPCError(<<"Batch item args must be an array">>, "BAD_REQUEST")
  ELSE NoError

\* (variant: the size of the batch is not limited)
ValidateBatchNoLimit(parsed, max) ==
  IF parsed.t # "object" \/ ~parsed.hasRequests
    THEN SRPCError(<<"Invalid batch request format">>, "BAD_REQUEST")
  ELSE IF ~parsed.isList
    THEN SRPCError(<<"Batch requests must be an array">>, "BAD_REQUEST")
  ELSE IF Len(parsed.requests) = 0
    THEN SRPCError(<<"Batch cannot be empty">>, "BAD_REQUEST")
  ELSE LET bad == {i \in 1..Len(parsed.requests) :
                     ItemError(parsed.requests[i]) # NoError} IN
       IF bad # {}
         THEN ItemError(parsed.requests[CHOOSE i \in bad : \A j \in bad : i <= j])
         ELSE NoError

\* the validation of handleBatchRequest: the error it throws, or NoError
ValidateBatch(parsed, max) ==
  IF parsed.t # "object" \/ ~parsed.hasRequests
    THEN SRPCError(<<"Invalid batch request format">>, "BAD_REQUEST")
  ELSE IF ~parsed.isList
    THEN SRPCError(<<"Batch requests must be an array">>, "BAD_REQUEST")
  ELSE IF Len(parsed.requests) = 0
    THEN SRPCError(<<"Batch cannot be empty">>, "BAD_REQUEST")
  ELSE IF Len(parsed.requests) > max
    THEN SRPCError(<<"Batch size", ToString(Len(parsed.requests)),
                     "exceeds maximum", ToString(max)>>, "BAD_REQUEST")
  ELSE LET bad == {i \in 1..Len(parsed.requests) :
                     ItemError(parsed.requests[i]) # NoError} IN
       IF bad # {}
         THEN ItemError(parsed.requests[CHOOSE i \in bad : \A j \in bad : i <= j])
         ELSE NoError

\* (variant: an item is paired with the result of the item before it)
ResponseItemShifted(requests, results, i) ==
  LET id == requests[i].id
      result == results[IF i > 1 THEN i - 1 ELSE Len(results)] IN
  IF result.kind = "ok" THEN OkItem(id, result.data)
  ELSE IF result.kind = "typed" THEN ErrItem(id, result.error)
  ELSE ErrItem(id, SRPCError(result.error.message, "INTERNAL_SERVER_ERROR"))

\* results.map((result, i) => ...): the response item of request i
ResponseItem(requests, results, i) ==
  LET id == requests[i].id
      result == results[i] IN
  IF result.kind = "ok" THEN OkItem(id, result.data)
  ELSE IF result.kind = "typed" THEN ErrItem(id, result.error)
  ELSE ErrItem(id, SRPCError(result.error.message, "INTERNAL_SERVER_ERROR"))

\* the Response objects of the adapter; "rejected" when fetch(req) itself
\* rejects and there is none
Response(kind, status, data, error, responses) ==
  [kind |-> kind, status |-> status, data |-> data, error |-> error,
   responses |-> responses]
NoResponse == Response("none", 0, NoData, NoError, <<>>)
FetchRejects(error) == Response("rejected", 0, NoData, error, <<>>)
DataResponse(data) == Response("data", 200, data, NoError, <<>>)

\* (variant: the items are listed in the reverse order of the requests)
BatchResponseReversed(requests, results) ==
  Response("batch", 200, NoData, NoError,
           [i \in 1..Len(requests) |->
              ResponseItem(requests, results, Len(requests) + 1 - i)])

\* (variant: the status of a batch response reports the items that failed)
BatchResponseByItems(requests, results) ==
  Response("batch",
           IF \E i \in 1..Len(results) : results[i].kind = "typed"
             THEN 400 ELSE 200,
           NoData, NoError,
           [i \in 1..Len(requests) |-> ResponseItem(requests, results, i)])

\* new Response(serializer.serialize(result)): status left at its default
BatchResponse(requests, results) ==
  Response("batch", 200, NoData, NoError,
           [i \in 1..Len(requests) |-> ResponseItem(requests, results, i)])

\* whether new Response(body, {statusText}) accepts the status text: it
\* throws a TypeError for a text that is no HTTP reason phrase
ReasonPhrase(text) == \A k \in 1..Len(text) : text[k] # LineBreak

\* serializer.serialize(new SRPCError(message, code)): code, name and
\* __BRAND__ are own enumerable properties of the instance and are encoded,
\* message and stack are not
SerializeInstance(error) == SRPCError(<<>>, error.code)

\* serializer.serialize({...error, stack: null, message: error.message})
SerializeSpread(error) == SRPCError(error.message, error.code)

\* the property names of the object the body of a failure response
\* encodes: the spread copies the own enumerable properties code, name and
\* __BRAND__ and adds stack (as null) and message; of an instance
\* JSON.stringify writes the own enumerable properties only
EncodedKeys(thrown) ==
  IF thrown.kind = "typed"
    THEN {"code", "name", "__BRAND__", "stack", "message"}
    ELSE {"code", "name", "__BRAND__"}

\* the value encoded under stack, where there is one
EncodedStack(thrown) == IF thrown.kind = "typed" THEN Null ELSE Undefined

\* (variant: only typed errors are answered, anything else is thrown on)
ErrorResponseTypedOnly(thrown) ==
  IF thrown.kind = "typed" /\ ReasonPhrase(thrown.error.message)
    THEN Response("error", StatusCodeMap(thrown.error.code), NoData,
                  SerializeSpread(thrown.error), <<>>)
    ELSE FetchRejects(thrown.error)

\* the catch blocks of fetch: thrown is a settlement of kind typed/untyped
ErrorResponse(thrown) ==
  IF thrown.kind = "typed"
    THEN IF ReasonPhrase(thrown.error.message)
           THEN Response("error", StatusCodeMap(thrown.error.code), NoData,
                         SerializeSpread(thrown.error), <<>>)
           ELSE FetchRejects(SRPCError(<<"Invalid statusText">>, ""))
    ELSE Response("error", 500, NoData,
                  SerializeInstance(
                    SRPCError(thrown.error.message, "INTERNAL_SERVER_ERROR")),
                  <<>>)

\* what createContext does: it returns a context, throws a typed error,
\* or throws anything else
ContextOutcomes ==
  {Fulfilled(<<"u1">>),
   RejectedTyped(SRPCError(<<"no session">>, "UNAUTHORIZED")),
   RejectedOther(<<"db down">>)}

\* the paths of single calls: registered at the top level and nested,
\* not registered, missing at a nested level, naming a router, and names
\* every object inherits
SinglePaths ==
  {<<"sayHello">>, <<"failingProcedure">>, <<"throwing">>, <<"whoami">>,
   <<"failingMultiline">>,
   <<"users", "getUser">>, <<"users", "admin", "createUser">>,
   <<"nope">>, <<"users", "nope">>, <<"users", "admin", "nope">>,
   <<"nope", "getUser">>, <<"sayHello", "x">>, <<"users">>, <<"users", "admin">>,
   <<"toString">>, <<"hasOwnProperty">>, <<"__proto__">>,
   <<"users", "toString">>, <<"__proto__", "toString">>}

\* the argument lists of single calls
SingleArgs == {<< <<"A">> >>, << <<"A">>, <<"B">> >>}

\* a POST request given to fetch(req) of srpcFetchApi
Request(route, path, args, parsed, max) ==
  [route |-> route, path |-> path, args |-> args, parsed |-> parsed,
   maxBatchSize |-> max, method |-> "POST", via |-> "fetch"]

\* the request with another method, or arriving at the socket adapter
\* createSrpcServer ("socket") instead of at srpcFetchApi ("fetch")
Sent(req, method, via) == [req EXCEPT !.method = method, !.via = via]
NoRequest == Request("none", <<>>, <<>>, Garbage, 0)

\* requests with other methods and requests to the socket adapter: GET
\* has no body, so its text is empty and does not decode; PUT carries one
OtherRequests ==
  LET single == {Request("single", p, << <<"A">> >>, ArgsBody, 0) : p \in SinglePaths}
      bodyless == {Request("single", p, <<>>, Garbage, 0) : p \in SinglePaths}
      batch == {Request("batch", <<"_batch">>, <<>>, Envelope(<<ValidItem(1, c)>>),
                        DefaultMaxBatchSize) : c \in ItemCalls}
      nobatch == {Request("batch", <<"_batch">>, <<>>, Garbage, DefaultMaxBatchSize)}
  IN {Sent(r, "PUT", v) : r \in single \cup batch, v \in {"fetch", "socket"}}
       \cup {Sent(r, "GET", v) : r \in bodyless \cup nobatch, v \in {"fetch", "socket"}}
       \cup {Sent(r, "POST", "socket") : r \in single \cup bodyless \cup batch}

\* the requests the model's clients send
Requests ==
  OtherRequests \cup
  {Request("single", p, a, ArgsBody, 0) : p \in SinglePaths, a \in SingleArgs}
  \cup {Request("single", <<"failingWith">>, << <<c>> >>, ArgsBody, 0) : c \in ErrorCodes}
  \cup {Request("single", p, <<>>, Garbage, 0) : p \in SinglePaths}
  \cup {Request("batch", <<"_batch">>, <<>>, b, m) :
          b \in NonEnvelopes \cup {Garbage}
                \cup {Envelope(r) : r \in SeqsUpTo(BatchItems, MaxBatchLen)},
          m \in MaxBatchSizes}

\* one invocation of a function: which, and the argument list it received
Invocation(fn, context, args) == [fn |-> fn, received |-> Apply(context, args)]

\* the synchronous part of requests.map((req) => api.call(...)): every
\* call resolves its route and invokes it before any of them settles
RECURSIVE InvokedBy(_, _)
InvokedBy(calls, context) ==
  IF calls = <<>> THEN <<>>
  ELSE LET c == call(Head(calls).path, context, Head(calls).args) IN
       (IF c.invoked THEN <<Invocation(c.fn, context, Head(calls).args)>> ELSE <<>>)
         \o InvokedBy(Tail(calls), context)

\* the calls a request makes once its context and body are there
CallsOf(req) ==
  IF req.route = "batch" THEN req.parsed.requests
  ELSE <<[path |-> req.path, args |-> req.args]>>

SrvIdle ==
  /\ srvPc = "idle"
  /\ srvReq = NoRequest
  /\ srvCtx = Pending
  /\ srvHooks = 0
  /\ srvInvoked = <<>>
  /\ srvResults = <<>>
  /\ srvResponse = NoResponse

\* new Response(null, { status: 405 })
MethodNotAllowed == Response("empty", 405, NoData, NoError, <<>>)

\* the method check of createSrpcServer; srpcFetchApi has none
MethodCheck(req) == req.via = "socket" /\ req.method # "POST"

\* (variant: createContext is called for every request that arrives)
ReceiveHookFirst ==
  /\ srvPc = "idle"
  /\ \E req \in Requests :
       /\ srvReq' = req
       /\ srvPc' = IF MethodCheck(req) THEN "done" ELSE "context"
       /\ srvResponse' = IF MethodCheck(req) THEN MethodNotAllowed ELSE NoResponse
       /\ srvHooks' = srvHooks + 1
  /\ srvCtx' = Pending
  /\ srvInvoked' = <<>>
  /\ srvResults' = <<>>
  /\ UNCHANGED <<linkVars, rtVars, pxVars, bldVars, rsVars, urlVars, chVars>>

\* a request arrives: the socket adapter answers a method other than POST
\* at once; otherwise createContext is called and awaited
Receive ==
  /\ srvPc = "idle"
  /\ \E req \in Requests :
       /\ srvReq' = req
       /\ srvPc' = IF MethodCheck(req) THEN "done" ELSE "context"
       /\ srvResponse' = IF MethodCheck(req) THEN MethodNotAllowed ELSE NoResponse
       /\ srvHooks' = IF MethodCheck(req) THEN srvHooks ELSE srvHooks + 1
  /\ srvCtx' = Pending
  /\ srvInvoked' = <<>>
  /\ srvResults' = <<>>
  /\ UNCHANGED <<linkVars, rtVars, pxVars, bldVars, rsVars, urlVars, chVars>>

Done(response) ==
  /\ srvPc' = "done"
  /\ srvResponse' = response
  /\ UNCHANGED <<srvInvoked, srvResults>>

\* from the return of createContext to the next await that depends on a
\* procedure: the body is read and decoded, a batch is validated, and the
\* calls are started
Start(context) ==
  IF srvReq.parsed = Garbage
    THEN Done(IF srvReq.route = "batch"
                THEN ErrorResponse(RejectedOther(<<"Unexpected token">>))
                ELSE FetchRejects(SRPCError(<<"Unexpected token">>, "")))
  ELSE IF srvReq.route = "batch"
          /\ ValidateBatch(srvReq.parsed, srvReq.maxBatchSize) # NoError
    THEN Done(ErrorResponse(RejectedTyped(
                ValidateBatch(srvReq.parsed, srvReq.maxBatchSize))))
  ELSE /\ srvPc' = "exec"
       /\ srvInvoked' = InvokedBy(CallsOf(srvReq), context)
       /\ srvResults' = [i \in 1..Len(CallsOf(srvReq)) |-> Pending]
       /\ srvResponse' = NoResponse

\* createContext settles: srpcFetchApi awaits it inside the try block of
\* its batch branch and outside the one of its single-call branch;
\* createSrpcServer awaits it itself, before it calls fetch of srpcFetchApi
ContextDone ==
  /\ srvPc = "context"
  /\ \E c \in ContextOutcomes :
       /\ srvCtx' = c
       /\ IF c.kind = "ok" THEN Start(c.data)
          ELSE IF srvReq.via = "socket" THEN Done(FetchRejects(c.error))
          ELSE IF srvReq.route = "batch" THEN Done(ErrorResponse(c))
          ELSE Done(FetchRejects(c.error))
  /\ UNCHANGED <<srvReq, srvHooks>>
  /\ UNCHANGED <<linkVars, rtVars, pxVars, bldVars, rsVars, urlVars, chVars>>

\* the promise of the i-th call settles
ItemDone(i) ==
  /\ srvPc = "exec"
  /\ i \in 1..Len(srvResults)
  /\ srvResults[i] = Pending
  /\ srvResults' =
       [srvResults EXCEPT
          ![i] = call(CallsOf(srvReq)[i].path, srvCtx.data,
                      CallsOf(srvReq)[i].args).outcome]
  /\ UNCHANGED <<srvPc, srvReq, srvCtx, srvHooks, srvInvoked, srvResponse>>
  /\ UNCHANGED <<linkVars, rtVars, pxVars, bldVars, rsVars, urlVars, chVars>>

\* (variant: the socket adapter writes the body of the response it got
\* from fetch and leaves the status at 200)
RespondSocketStatus ==
  /\ srvPc = "exec"
  /\ \A i \in 1..Len(srvResults) : srvResults[i] # Pending
  /\ srvPc' = "done"
  /\ srvResponse' =
       LET response ==
             IF srvReq.route = "batch"
               THEN BatchResponse(srvReq.parsed.requests, srvResults)
             ELSE IF srvResults[1].kind = "ok" THEN DataResponse(srvResults[1].data)
             ELSE ErrorResponse(srvResults[1])
       IN IF srvReq.via = "socket" /\ response.kind = "error"
            THEN [response EXCEPT !.status = 200]
            ELSE response
  /\ UNCHANGED <<srvReq, srvCtx, srvHooks, srvInvoked, srvResults>>
  /\ UNCHANGED <<linkVars, rtVars, pxVars, bldVars, rsVars, urlVars, chVars>>

\* all calls have settled: Promise.allSettled resumes handleBatchRequest,
\* or the await of the single call resumes fetch
Respond ==
  /\ srvPc = "exec"
  /\ \A i \in 1..Len(srvResults) : srvResults[i] # Pending
  /\ srvPc' = "done"
  /\ srvResponse' =
       IF srvReq.route = "batch"
         THEN BatchResponse(srvReq.parsed.requests, srvResults)
       ELSE IF srvResults[1].kind = "ok" THEN DataResponse(srvResults[1].data)
       ELSE ErrorResponse(srvResults[1])
  /\ UNCHANGED <<srvReq, srvCtx, srvHooks, srvInvoked, srvResults>>
  /\ UNCHANGED <<linkVars, rtVars, pxVars, bldVars, rsVars, urlVars, chVars>>

\* a link that is constructed and never called
LinkIdle == LinkInit /\ maxBatchSize = 1

SrvInit == SrvIdle /\ LinkIdle /\ RtIdle /\ PxInit /\ BldInit /\ RsInit /\ UrlInit /\ ChInit

SrvNext ==
  \/ Receive
  \/ ContextDone
  \/ \E i \in 1..MaxBatchLen : ItemDone(i)
  \/ Respond

SrvSpec == SrvInit /\ [][SrvNext]_vars

\* the link is constructed; no request has reached the adapter
LinkStart == LinkInit /\ SrvIdle /\ RtIdle /\ PxInit /\ BldInit /\ RsInit /\ UrlInit /\ ChInit

LinkSpec == LinkStart /\ [][LinkNext]_vars

\* the host's timers fire and every pending await of a flush completes
LinkFairness ==
  /\ WF_vars(TimerFire)
  /\ \A b \in 1..MaxCalls :
       WF_vars(HeadersDone(b)) /\ WF_vars(FetchDone(b)) /\ WF_vars(TextDone(b))

LinkLiveSpec == LinkSpec /\ LinkFairness

---------------------------------------------------------------------------
(* Client and server together: client/index.ts, client/httpBatchLink.ts
   against server/fetch.ts *)

\* the calls a client makes in a round trip: a procedure that succeeds,
\* one that raises a typed error, one whose typed error has a message of two
\* lines, one that raises another exception, one that returns nothing, and
\* a path not registered
RtCallSet ==
  {[path |-> <<"sayHello">>, args |-> << <<"A">> >>],
   [path |-> <<"failingProcedure">>, args |-> <<>>],
   [path |-> <<"failingMultiline">>, args |-> <<>>],
   [path |-> <<"throwing">>, args |-> <<>>],
   [path |-> <<"test">>, args |-> <<>>],
   [path |-> <<"nope">>, args |-> <<>>]}

\* what fetch gives the client: it throws (failed), or a response with its
\* ok flag, status text, and body: no JSON, or JSON that is a value, a
\* typed-error payload (branded), or a responses envelope
Wire(failed, ok, statusText, json, branded, data, error, responses) ==
  [failed |-> failed, ok |-> ok, statusText |-> statusText, json |-> json,
   branded |-> branded, data |-> data, error |-> error, responses |-> responses]

\* JSON.stringify(data) is a string; for undefined it is undefined, and the
\* Response built from it has an empty body
Stringifies(data) == data # UndefinedData

\* the Response of the adapter as the client's fetch returns it; its text
\* decodes unless it is empty
WireOf(response) ==
  Wire(FALSE, response.status >= 200 /\ response.status <= 299,
       response.error.message, response.kind = "data" => Stringifies(response.data),
       response.kind = "error",
       response.data, response.error, response.responses)

\* what the client's fetch gives when fetch(req) of the adapter rejected:
\* the connection fails, or the host answers 500 on its own, with a text
\* body or with a JSON body that is no typed-error payload
HostFailures ==
  {Wire(TRUE, FALSE, <<>>, FALSE, FALSE, NoData, NoError, <<>>),
   Wire(FALSE, FALSE, <<"Internal Server Error">>, FALSE, FALSE, NoData, NoError, <<>>),
   Wire(FALSE, FALSE, <<"Internal Server Error">>, TRUE, FALSE, NoData, NoError, <<>>)}

\* a caller's promise rejected with a value that is no SRPCError
Throw(message) ==
  [kind |-> "throw", data |-> NoData, error |-> SRPCError(message, ""), batch |-> 0]

\* the handler of createSRPCClient from the return of fetch on
DirectOutcome(wire) ==
  IF wire.failed THEN Throw(<<"fetch failed">>)
  ELSE IF ~wire.json THEN Throw(<<"Unexpected token">>)
  ELSE IF ~wire.ok
    THEN IF wire.branded
           THEN Reject(SRPCError(wire.error.message, wire.error.code), 0)
           ELSE Reject(SRPCError(IF wire.statusText = <<>> THEN <<"Unknown error">>
                                 ELSE wire.statusText, "GENERIC_ERROR"), 0)
  ELSE Resolve(wire.data, 0)

\* flush of httpBatchLink from the return of fetch on, for the request with
\* the id
BatchOutcome(wire, id) ==
  IF wire.failed
    THEN Reject(CatchError([typed |-> FALSE,
                            error |-> SRPCError(<<"fetch failed">>, "")]), 0)
  ELSE IF ~wire.ok THEN Reject(StatusError(wire.statusText), 0)
  ELSE IF ~wire.json
    THEN Reject(CatchError([typed |-> FALSE,
                            error |-> SRPCError(<<"Unexpected token">>, "")]), 0)
  ELSE SettleFromResponse([id |-> id], wire.responses, 0)

\* the handler of createSRPCCaller: the call made in the server's process
CallerOutcome(path, context, args) ==
  LET outcome == call(path, context, args).outcome IN
  IF outcome.kind = "ok" THEN Resolve(outcome.data, 0)
  ELSE IF outcome.kind = "typed" THEN Reject(outcome.error, 0)
  ELSE Throw(outcome.error.message)

\* the client makes its calls and the request reaches the adapter: one
\* call through the direct link, or the calls of one batch window through a
\* batching link, with ids in capture order
RtSend ==
  /\ rtPc = "idle"
  /\ srvPc = "idle"
  /\ \E link \in {"direct", "batch"} :
       \E calls \in SeqsUpTo(RtCallSet, MaxRtCalls) :
         /\ Len(calls) >= 1
         /\ link = "direct" => Len(calls) = 1
         /\ rtLink' = link
         /\ rtCalls' = calls
         /\ srvReq' =
              IF link = "direct"
                THEN Request("single", calls[1].path, calls[1].args, ArgsBody, 0)
                ELSE Request("batch", <<"_batch">>, <<>>,
                             Envelope([k \in 1..Len(calls) |-> ValidItem(k, calls[k])]),
                             DefaultMaxBatchSize)
  /\ rtPc' = "sent"
  /\ rtOutcomes' = <<>>
  /\ rtWire' = <<>>
  /\ srvPc' = "context"
  /\ srvHooks' = srvHooks + 1
  /\ UNCHANGED <<srvCtx, srvInvoked, srvResults, srvResponse>>
  /\ UNCHANGED <<linkVars, pxVars, bldVars, rsVars, urlVars, chVars>>

\* the response is back and the client settles its callers
RtReceive ==
  /\ rtPc = "sent"
  /\ srvPc = "done"
  /\ \E wire \in (IF srvResponse.kind = "rejected" THEN HostFailures
                  ELSE {WireOf(srvResponse)}) :
       /\ rtWire' = <<wire>>
       /\ rtOutcomes' =
            [k \in 1..Len(rtCalls) |->
               IF rtLink = "direct" THEN DirectOutcome(wire)
               ELSE BatchOutcome(wire, k)]
  /\ rtPc' = "done"
  /\ UNCHANGED <<rtLink, rtCalls>>
  /\ UNCHANGED <<linkVars, srvVars, pxVars, bldVars, rsVars, urlVars, chVars>>

RtNext ==
  \/ RtSend
  \/ ContextDone
  \/ \E i \in 1..MaxBatchLen : ItemDone(i)
  \/ Respond
  \/ RtReceive

RoundTripSpec == SrvInit /\ [][RtNext]_vars

---------------------------------------------------------------------------
(* The call interceptors: shared/proxy.ts, shared/proxy.spec.ts *)

\* the property names of the ProxyTest interface, the awaitable marker and
\* a symbol key
PxKeys ==
  { Key("string", "test"), Key("string", "hello"), Key("string", "then"),
    Key("symbol", "Symbol.toPrimitive") }

\* the argument lists of the calls
PxArgs == { <<>>, <<"a", "b">> }

\* (variant: only symbol keys are probes)
IsProbeSymbolsOnly(name) == name.t # "string"

\* the keys the get trap answers with undefined
IsProbe(name) == name.t # "string" \/ name.n = "then"

\* what the handler returns for the record {path, args} it is invoked with
Handler(record) == Value("returned", "", record.path, <<>>, record.args)

\* what the flat interceptor's callback returns for a name
Callback(name) == Value("returned", "", <<name>>, <<>>, <<>>)

\* (variant: the segments are concatenated without a separator)
JoinNoSeparator(path) == path

\* path.join("."): the segments with a "." between neighbours
JoinDots(path) ==
  [i \in 1..(IF path = <<>> THEN 0 ELSE 2 * Len(path) - 1) |->
     IF i % 2 = 1 THEN path[(i + 1) \div 2] ELSE "."]

\* the tagged object of the serializable form
Tagged(path) == Value("json", "SRPC", path, JoinDots(path), <<>>)

\* get trap of the flat interceptor
FlatGet(name) ==
  /\ name \in PxKeys
  /\ IF IsProbe(name)
       THEN /\ pxLast' = UndefinedValue
            /\ UNCHANGED pxFlatCalls
       ELSE /\ Len(pxFlatCalls) < MaxProxyCalls
            /\ pxFlatCalls' = Append(pxFlatCalls, name.n)
            /\ pxLast' = Callback(name.n)
  /\ pxOp' = Operation("flatGet", name, <<>>)
  /\ UNCHANGED <<pxPath, pxNames, pxCalls>>
  /\ UNCHANGED <<linkVars, srvVars, rtVars, bldVars, rsVars, urlVars, chVars>>

\* (variant: one path is shared by all values and every access extends it)
PxGetSharedPath(name) ==
  /\ name \in PxKeys
  /\ IF IsProbe(name)
       THEN /\ pxLast' = UndefinedValue
            /\ UNCHANGED <<pxPath, pxNames, pxKept>>
       ELSE /\ Len(pxPath) < MaxPathLen
            /\ pxPath' = Append(pxPath, name.n)
            /\ pxNames' = Append(pxNames, name.n)
            /\ pxKept' = IF pxKept.held THEN [pxKept EXCEPT !.path = pxPath']
                         ELSE pxKept
            /\ pxLast' = Intercepted(pxPath')
  /\ pxOp' = Operation("get", name, <<>>)
  /\ UNCHANGED <<pxCalls, pxFlatCalls>>
  /\ UNCHANGED <<linkVars, srvVars, rtVars, bldVars, rsVars, urlVars>>

\* property access on the intercepted value the program holds
PxGet(name) ==
  /\ name \in PxKeys
  /\ IF IsProbe(name)
       THEN /\ pxLast' = UndefinedValue
            /\ UNCHANGED <<pxPath, pxNames>>
       ELSE /\ Len(pxPath) < MaxPathLen
            /\ pxPath' = Append(pxPath, name.n)
            /\ pxNames' = Append(pxNames, name.n)
            /\ pxLast' = Intercepted(pxPath')
  /\ pxOp' = Operation("get", name, <<>>)
  /\ UNCHANGED <<pxCalls, pxFlatCalls>>
  /\ UNCHANGED <<linkVars, srvVars, rtVars, bldVars, rsVars, urlVars, chVars>>

\* (variant: the handler receives the path most recent name first)
PxApplyReversed(args) ==
  /\ pxPath # <<>>
  /\ Len(pxCalls) < MaxProxyCalls
  /\ LET record == [path |-> [i \in 1..Len(pxPath) |-> pxPath[Len(pxPath) + 1 - i]],
                    args |-> args] IN
       /\ pxCalls' = Append(pxCalls, record)
       /\ pxLast' = Handler(record)
  /\ pxOp' = Operation("apply", NoKey, args)
  /\ pxPath' = <<>>
  /\ pxNames' = <<>>
  /\ UNCHANGED pxFlatCalls
  /\ UNCHANGED <<linkVars, srvVars, rtVars, bldVars, rsVars, urlVars, chVars>>

\* invocation of the intercepted value the program holds, in a program
\* of at most max invocations; the program goes on from the root value
PxApplyUpTo(args, max) ==
  /\ pxPath # <<>>
  /\ Len(pxCalls) < max
  /\ LET record == [path |-> pxPath, args |-> args] IN
       /\ pxCalls' = Append(pxCalls, record)
       /\ pxLast' = Handler(record)
  /\ pxOp' = Operation("apply", NoKey, args)
  /\ pxPath' = <<>>
  /\ pxNames' = <<>>
  /\ UNCHANGED pxFlatCalls
  /\ UNCHANGED <<linkVars, srvVars, rtVars, bldVars, rsVars, urlVars, chVars>>

PxApply(args) == PxApplyUpTo(args, MaxProxyCalls)

\* conversion to a display string: value.toString(), `${value}`
PxToString ==
  /\ pxPath # <<>>
  /\ pxLast' = Value("string", "", <<>>, JoinDots(pxPath), <<>>)
  /\ pxOp' = Operation("toString", NoKey, <<>>)
  /\ UNCHANGED <<pxPath, pxNames, pxCalls, pxFlatCalls>>
  /\ UNCHANGED <<linkVars, srvVars, rtVars, bldVars, rsVars, urlVars, chVars>>

\* conversion to a serializable form: JSON.stringify(value)
PxToJSON ==
  /\ pxPath # <<>>
  /\ pxLast' = Tagged(pxPath)
  /\ pxOp' = Operation("toJSON", NoKey, <<>>)
  /\ UNCHANGED <<pxPath, pxNames, pxCalls, pxFlatCalls>>
  /\ UNCHANGED <<linkVars, srvVars, rtVars, bldVars, rsVars, urlVars, chVars>>

\* the program drops the value it holds and goes on from the root value
PxRoot ==
  /\ pxPath # <<>>
  /\ pxPath' = <<>>
  /\ pxNames' = <<>>
  /\ pxOp' = Operation("root", NoKey, <<>>)
  /\ pxLast' = Intercepted(<<>>)
  /\ UNCHANGED <<pxCalls, pxFlatCalls>>
  /\ UNCHANGED <<linkVars, srvVars, rtVars, bldVars, rsVars, urlVars, chVars>>

PxNext ==
  \/ \E name \in PxKeys : FlatGet(name)
  \/ \E name \in PxKeys : PxGet(name)
  \/ \E args \in PxArgs : PxApply(args)
  \/ PxToString
  \/ PxToJSON
  \/ PxRoot

ProxySpec == SrvInit /\ [][PxNext]_vars

---------------------------------------------------------------------------
(* Two chains continued from one intercepted value *)

\* the invocations of a program that continues two chains
MaxChainCalls == MaxProxyCalls + 1

\* const a = <the value the program holds>, before the program's first
\* invocation
PxKeep ==
  /\ pxPath # <<>>
  /\ ~pxKept.held
  /\ pxCalls = <<>>
  /\ pxKept' = [held |-> TRUE, path |-> pxPath, names |-> pxNames]
  /\ pxOp' = Operation("keep", NoKey, <<>>)
  /\ pxLast' = Intercepted(pxPath)
  /\ UNCHANGED <<pxPath, pxNames, pxCalls, pxFlatCalls>>
  /\ UNCHANGED <<linkVars, srvVars, rtVars, bldVars, rsVars, urlVars>>

\* the program goes on from a, the value it kept
PxResume ==
  /\ pxKept.held
  /\ pxPath' = pxKept.path
  /\ pxNames' = pxKept.names
  /\ pxOp' = Operation("resume", NoKey, <<>>)
  /\ pxLast' = Intercepted(pxKept.path)
  /\ UNCHANGED <<pxCalls, pxFlatCalls, pxKept>>
  /\ UNCHANGED <<linkVars, srvVars, rtVars, bldVars, rsVars, urlVars>>

\* the names of the chains: the keys that are no probes
ChKeys == {name \in PxKeys : ~IsProbe(name)}

ChNext ==
  \/ \E name \in ChKeys : PxGet(name)
  \/ \E args \in PxArgs : PxApplyUpTo(args, MaxChainCalls)
  \/ PxKeep
  \/ PxResume

ChainSpec == SrvInit /\ [][ChNext]_vars

---------------------------------------------------------------------------
(* The router builder: server/api.ts *)

\* an entry of a routes object: a name with a procedure or with the n-th
\* SRPC instance
Entry(name, kind, n) == [name |-> name, kind |-> kind, n |-> n]

\* the routes objects a program passes to router() when n instances exist
Tables(n) ==
  { {Entry("a", "fn", 1)}, {Entry("a", "fn", 2), Entry("b", "fn", 3)} }
    \cup { {Entry("sub", "router", j)} : j \in 1..n }

\* constructor of SRPC: __routes is assigned only when routes are given
Construct(given, routes) == [has |-> given, routes |-> IF given THEN routes ELSE {}]

\* initSRPC()
InitSRPC ==
  /\ Len(routers) < MaxRouters
  /\ routers' = Append(routers, Construct(FALSE, {}))
  /\ bldOp' = BldOperation("initSRPC", 0, Len(routers) + 1, {})
  /\ UNCHANGED <<linkVars, srvVars, rtVars, pxVars, rsVars, urlVars, chVars>>

\* context() of the i-th instance
SrpcContext(i) ==
  /\ i \in 1..Len(routers)
  /\ Len(routers) < MaxRouters
  /\ routers' = Append(routers, Construct(FALSE, {}))
  /\ bldOp' = BldOperation("context", i, Len(routers) + 1, {})
  /\ UNCHANGED <<linkVars, srvVars, rtVars, pxVars, rsVars, urlVars, chVars>>

\* (variant: router() stores the routes in the instance it is called on)
SrpcRouterInPlace(i, routes) ==
  /\ i \in 1..Len(routers)
  /\ Len(routers) < MaxRouters
  /\ routes \in Tables(Len(routers))
  /\ routers' = [routers EXCEPT ![i] = Construct(TRUE, routes)]
  /\ bldOp' = BldOperation("router", i, i, {})
  /\ UNCHANGED <<linkVars, srvVars, rtVars, pxVars, rsVars, urlVars, chVars>>

\* router(routes) of the i-th instance
SrpcRouter(i, routes) ==
  /\ i \in 1..Len(routers)
  /\ Len(routers) < MaxRouters
  /\ routes \in Tables(Len(routers))
  /\ routers' = Append(routers, Construct(TRUE, routes))
  /\ bldOp' = BldOperation("router", i, Len(routers) + 1, {})
  /\ UNCHANGED <<linkVars, srvVars, rtVars, pxVars, rsVars, urlVars, chVars>>

\* getRoute of an sRPC_API over the i-th instance reads __routes[name]
BldLookup(i, name) ==
  /\ i \in 1..Len(routers)
  /\ routers[i].has
  /\ name \in {"a", "b", "sub"}
  /\ bldOp' = BldOperation("getRoute", i, 0,
                           {e \in routers[i].routes : e.name = name})
  /\ UNCHANGED routers
  /\ UNCHANGED <<linkVars, srvVars, rtVars, pxVars, rsVars, urlVars, chVars>>

BldNext ==
  \/ InitSRPC
  \/ \E i \in 1..MaxRouters : SrpcContext(i)
  \/ \E i \in 1..MaxRouters : \E routes \in Tables(MaxRouters) : SrpcRouter(i, routes)
  \/ \E i \in 1..MaxRouters : \E name \in {"a", "b", "sub"} : BldLookup(i, name)

BuilderSpec == SrvInit /\ [][BldNext]_vars

---------------------------------------------------------------------------
(* Resolution of paths: server/api.ts *)

\* the names the resolved paths are made of
RsNames == {"users", "getUser", "list", "sayHello", "toString"}

\* the routers an sRPC_API is constructed over
RsRouters == {"root", "dotted"}

\* getRoute(path) of the sRPC_API over router r
ResolvePath(r, path) ==
  /\ r \in RsRouters
  /\ path \in SeqsUpTo(RsNames, MaxSegments)
  /\ path # <<>>
  /\ resolved' = [router |-> r, path |-> path, route |-> getRouteIn(r, path)]
  /\ UNCHANGED <<linkVars, srvVars, rtVars, pxVars, bldVars, urlVars, chVars>>

RsNext == \E r \in RsRouters : \E path \in SeqsUpTo(RsNames, MaxSegments) : ResolvePath(r, path)

ResolveSpec == SrvInit /\ [][RsNext]_vars

---------------------------------------------------------------------------
(* The two branches of fetch: unnamed/part_003 *)

\* strings are sequences of these pieces; "/" is the only one with a slash
UrlTokens == {"/", "api", "x", "_batch", "bulk", "sayHello"}

\* the endpoint and batchEndpoint options
Endpoints == {<<"/", "api">>, <<"/", "x">>}
BatchEndpoints == {<<"/", "_batch">>, <<"/", "bulk">>}

\* url.pathname of a request: it begins with a slash
Pathnames == {p \in SeqsUpTo(UrlTokens, MaxUrlLen) : p # <<>> /\ p[1] = "/"}

\* needle occurs in s at position k
Occurs(s, needle, k) ==
  /\ k + Len(needle) - 1 <= Len(s)
  /\ SubSeq(s, k, k + Len(needle) - 1) = needle

\* s.replace(needle, ""): the first occurrence of needle is removed
ReplaceFirst(s, needle) ==
  LET at == {k \in 1..Len(s) : Occurs(s, needle, k)} IN
  IF at = {} THEN s
  ELSE LET k == CHOOSE i \in at : \A j \in at : i <= j IN
       SubSeq(s, 1, k - 1) \o SubSeq(s, k + Len(needle), Len(s))

\* (variant: every pathname that begins with the batch path is a batch)
IsBatchPathByPrefix(pathname, endpoint, batchEndpoint) ==
  Occurs(pathname, endpoint \o batchEndpoint, 1)

\* pathname === `${endpoint}${batchEndpoint}`
IsBatchPath(pathname, endpoint, batchEndpoint) ==
  pathname = endpoint \o batchEndpoint

\* fetch up to the branch it takes: the batch branch hands the body to
\* handleBatchRequest, the other one hands path to api.call; fetch keeps
\* nothing between requests, so one request is followed
Route ==
  /\ routed.branch = "none"
  /\ \E endpoint \in Endpoints : \E batchEndpoint \in BatchEndpoints :
       \E pathname \in Pathnames :
         routed' =
           [endpoint |-> endpoint, batchEndpoint |-> batchEndpoint,
            pathname |-> pathname,
            branch |-> IF IsBatchPath(pathname, endpoint, batchEndpoint)
                         THEN "batch" ELSE "single",
            path |-> IF IsBatchPath(pathname, endpoint, batchEndpoint) THEN <<>>
                     ELSE ReplaceFirst(pathname, endpoint \o <<"/">>)]
  /\ UNCHANGED <<linkVars, srvVars, rtVars, pxVars, bldVars, rsVars, chVars>>

UrlNext == Route

RoutingSpec == SrvInit /\ [][UrlNext]_vars

---------------------------------------------------------------------------
(* Properties of the batching link *)

Last(seq) == seq[Len(seq)]
Finished(b) == batches[b].stage \in {"failed", "fannedOut"}

\* C1: no Pending Request is settled more than once: over any interleaving
\* of captures, timer expiries, size flushes and transport completions the
\* resolve and reject callbacks of a call are invoked at most once in total,
\* and the flushes that settle two calls of one snapshot are one flush.
C1_SettledAtMostOnce ==
  /\ \A i \in DOMAIN settled : Len(settled[i]) <= 1
  /\ \A b \in 1..Len(batches) : \A c \in 1..Len(batches) :
       b # c => IdsOf(batches[b].reqs) \cap IdsOf(batches[c].reqs) = {}

C1_Witness ==
  \E i \in DOMAIN settled : \E j \in DOMAIN settled :
    /\ Len(settled[i]) = 1 /\ Len(settled[j]) = 1
    /\ settled[i][1].batch # settled[j][1].batch
    /\ settled[i][1].kind = "resolve" /\ settled[j][1].kind = "reject"

\* C2: every captured call is eventually resolved or rejected, when timers
\* fire and the headers hook, the transport and the body read complete.
C2_EventuallySettled ==
  \A i \in 1..MaxCalls :
    (requestIdCounter >= i) ~> (requestIdCounter >= i /\ Len(settled[i]) >= 1)

C2_Witness ==
  \E b \in 1..Len(batches) :
    /\ batches[b].trigger = "timer"
    /\ Len(batches[b].reqs) >= 2
    /\ \A i \in IdsOf(batches[b].reqs) : Len(settled[i]) = 1
    /\ pendingRequests = <<>>

\* the first id of the b-th snapshot: the one after the previous snapshot
FirstIdOf(b) == IF b = 1 THEN 1 ELSE Last(batches[b-1].reqs).id + 1

\* the id of the first call captured after the b-th snapshot was taken
NextIdAfter(b) ==
  IF b < Len(batches) THEN batches[b+1].reqs[1].id
  ELSE IF pendingRequests # <<>> THEN pendingRequests[1].id
  ELSE requestIdCounter + 1

\* the envelope of a snapshot carries the calls captured since the previous
\* flush, each with its id, path and args, in capture order
CarriesAllCalls(envelope, b) ==
  /\ Len(envelope) = Len(batches[b].reqs)
  /\ \A k \in 1..Len(envelope) :
       envelope[k] = [id |-> FirstIdOf(b) + k - 1,
                      path |-> ClientCalls[FirstIdOf(b) + k - 1].path,
                      args |-> ClientCalls[FirstIdOf(b) + k - 1].args]
  /\ Last(envelope).id + 1 = NextIdAfter(b)

\* C3 as stated: K calls (1 <= K < maxBatchSize) captured before the timer
\* expires lead to exactly one transport request, a POST to
\* {endpoint}{batchEndpoint} whose envelope contains all K calls.
C3_Original ==
  \A b \in 1..Len(batches) :
    (batches[b].trigger = "timer" /\ Finished(b)) =>
      /\ Len(batches[b].sent) = 1
      /\ batches[b].sent[1].url = BatchUrl
      /\ batches[b].sent[1].method = "POST"
      /\ CarriesAllCalls(batches[b].sent[1].requests, b)

\* C3 (amended): for K calls (1 <= K < maxBatchSize) flushed by the timer,
\* at most one transport request is issued, and exactly one once the headers
\* hook has completed without throwing; it is a POST to
\* {endpoint}{batchEndpoint} whose envelope contains all K calls.  When the
\* headers hook throws, no request is issued.
C3_OneBatchRequest ==
  \A b \in 1..Len(batches) :
    batches[b].trigger = "timer" =>
      /\ Len(batches[b].reqs) >= 1
      /\ Len(batches[b].reqs) < maxBatchSize
      /\ Len(batches[b].sent) =
           (IF batches[b].stage = "headers" \/ batches[b].failedAt = "headers"
              THEN 0 ELSE 1)
      /\ \A n \in 1..Len(batches[b].sent) :
           /\ batches[b].sent[n].url = BatchUrl
           /\ batches[b].sent[n].method = "POST"
           /\ CarriesAllCalls(batches[b].sent[n].requests, b)

C3_Witness ==
  \E b \in 1..Len(batches) :
    /\ batches[b].trigger = "timer"
    /\ Len(batches[b].reqs) = 2
    /\ Len(batches[b].sent) = 1
    /\ batches[b].stage = "fannedOut"

\* a capture step that makes the buffer reach maxBatchSize
ReachesMax ==
  /\ requestIdCounter' = requestIdCounter + 1
  /\ Len(pendingRequests) + 1 >= maxBatchSize

\* ... flushes at once: the whole buffer becomes a new snapshot, and the
\* armed timer is taken from the host so that it never fires
FlushedAtOnce ==
  /\ Len(batches') = Len(batches) + 1
  /\ Last(batches').reqs =
       Append(pendingRequests,
              [id |-> requestIdCounter', path |-> ClientCalls[requestIdCounter'].path,
               args |-> ClientCalls[requestIdCounter'].args])
  /\ Last(batches').stage = "headers"
  /\ pendingRequests' = <<>>
  /\ timeoutId' = 0
  /\ timers' = {}

\* the capture step that follows a size-triggered flush
CaptureAfterSizeFlush ==
  /\ requestIdCounter' = requestIdCounter + 1
  /\ batches # <<>>
  /\ Last(batches).trigger = "size"
  /\ Last(Last(batches).reqs).id = requestIdCounter

\* ... leaves the earlier snapshots as they are
NotCoalesced ==
  /\ \A b \in 1..Len(batches) : batches'[b] = batches[b]
  /\ \A b \in 1..Len(batches) : requestIdCounter' \notin IdsOf(batches[b].reqs)

\* ... and opens a new batch under a newly armed timer
OpensTimedBatch ==
  /\ Len(pendingRequests') = 1
  /\ pendingRequests'[1].id = requestIdCounter'
  /\ timeoutId' # 0
  /\ timeoutId' # timeoutId
  /\ timers' = {timeoutId'}

\* C4 as stated: reaching maxBatchSize flushes immediately and cancels the
\* armed timer, and a call captured afterwards goes into a new batch with a
\* newly armed timer.
C4_Original ==
  [][/\ ReachesMax => FlushedAtOnce
     /\ CaptureAfterSizeFlush => (NotCoalesced /\ OpensTimedBatch)]_vars

\* C4 (amended): reaching maxBatchSize flushes immediately and cancels the
\* armed timer; a call captured afterwards goes into a new batch, with a
\* newly armed timer unless that call itself makes the buffer reach
\* maxBatchSize (maxBatchSize = 1), in which case it is flushed at once as a
\* batch of its own and no timer is armed.
C4_SizeFlush ==
  [][/\ ReachesMax => FlushedAtOnce
     /\ CaptureAfterSizeFlush =>
          /\ NotCoalesced
          /\ IF maxBatchSize > 1 THEN OpensTimedBatch ELSE FlushedAtOnce]_vars

C4_Witness ==
  /\ Len(batches) >= 1
  /\ batches[1].trigger = "size"
  /\ Len(batches[1].reqs) = 2
  /\ Len(pendingRequests) = 1
  /\ pendingRequests[1].id = 3
  /\ timeoutId = 3
  /\ timers = {3}

\* the items of a response list that carry the id
ItemsWith(responses, id) ==
  {k \in 1..Len(responses) : responses[k].id = id}

\* the fan-out just performed, and the outcome it gave the call
FannedOut(b) == lastResponses.batch = b /\ b # 0
Outcome(i) == [kind |-> Last(settled[i]).kind, data |-> Last(settled[i]).data,
               error |-> Last(settled[i]).error]
Resolved(d) == [kind |-> "resolve", data |-> d, error |-> NoError]
Rejected(m, c) == [kind |-> "reject", data |-> NoData, error |-> SRPCError(m, c)]

\* C5 as stated: after a successful transport response each request of the
\* snapshot is settled from the item with its id: present and ok resolves
\* with the item's data, present and not ok rejects with the item's message
\* and code, absent rejects with 'missing response for request'.
C5_Original ==
  \A b \in 1..Len(batches) : FannedOut(b) =>
    \A i \in IdsOf(batches[b].reqs) :
      LET R == lastResponses.responses IN
      /\ Len(settled[i]) >= 1
      /\ \A k \in ItemsWith(R, i) :
           IF R[k].ok THEN Outcome(i) = Resolved(R[k].data)
           ELSE Outcome(i) = Rejected(R[k].error.message, R[k].error.code)
      /\ ItemsWith(R, i) = {} =>
           Outcome(i) = Rejected(<<"Missing response for request">>, "GENERIC_ERROR")

\* C5 (amended): each request of the snapshot is settled from the item with
\* its id, the last one when several items carry that id: ok resolves with
\* the item's data; not ok with an error payload rejects with a typed error
\* of that message and code; not ok without an error payload rejects with an
\* 'Unknown response format' GENERIC_ERROR; no item rejects with a 'Missing
\* response for request' GENERIC_ERROR.  A failed item rejects only its own
\* caller.
C5_FanOutById ==
  \A b \in 1..Len(batches) : FannedOut(b) =>
    \A i \in IdsOf(batches[b].reqs) :
      LET R == lastResponses.responses
          W == ItemsWith(R, i)
      IN
      /\ Len(settled[i]) >= 1
      /\ Last(settled[i]).batch = b
      /\ W = {} =>
           Outcome(i) = Rejected(<<"Missing response for request">>, "GENERIC_ERROR")
      /\ W # {} =>
           LET k == CHOOSE m \in W : \A n \in W : n <= m IN
           /\ R[k].ok => Outcome(i) = Resolved(R[k].data)
           /\ (~R[k].ok /\ R[k].hasError) =>
                Outcome(i) = Rejected(R[k].error.message, R[k].error.code)
           /\ (~R[k].ok /\ ~R[k].hasError) =>
                Outcome(i) = Rejected(<<"Unknown response format">>, "GENERIC_ERROR")

C5_Witness ==
  \E b \in 1..Len(batches) :
    /\ FannedOut(b)
    /\ Len(batches[b].reqs) = 2
    /\ \E i \in IdsOf(batches[b].reqs) : \E j \in IdsOf(batches[b].reqs) :
         /\ Outcome(i) = Resolved(<<"d1">>)
         /\ Outcome(j) = Rejected(<<"Failed">>, "BAD_REQUEST")

\* every request of the snapshot was rejected with the one error
AllRejectedWith(b, error) ==
  \A i \in IdsOf(batches[b].reqs) :
    /\ Len(settled[i]) >= 1
    /\ Last(settled[i]).kind = "reject"
    /\ Last(settled[i]).error = error

\* the transport of the snapshot failed before a response body was read
TransportFailed(b) ==
  batches[b].stage = "failed" /\ batches[b].failedAt \in {"headers", "fetch", "status"}

\* C6 as stated: when the batch transport fails, every request of the
\* snapshot is rejected with one and the same typed error, whose code is
\* GENERIC_ERROR unless the failure already was a typed error, which is then
\* used.
C6_Original ==
  \A b \in 1..Len(batches) : TransportFailed(b) =>
    IF batches[b].cause.typed
      THEN AllRejectedWith(b, batches[b].cause.error)
      ELSE \E e \in {Last(settled[i]).error : i \in IdsOf(batches[b].reqs)} :
             AllRejectedWith(b, e) /\ e.code = "GENERIC_ERROR"

\* C6 (amended): when the batch transport fails, every request of the
\* snapshot is rejected with one and the same typed error: for a
\* non-success status a GENERIC_ERROR with the status text (or 'Batch
\* request failed'), for a thrown typed error that typed error, and for
\* anything else thrown an INTERNAL_SERVER_ERROR with the thrown message.
C6_TransportFailure ==
  \A b \in 1..Len(batches) : TransportFailed(b) =>
    IF batches[b].failedAt = "status"
      THEN AllRejectedWith(b,
             SRPCError(IF batches[b].cause.error.message = <<>>
                         THEN <<"Batch request failed">>
                         ELSE batches[b].cause.error.message, "GENERIC_ERROR"))
    ELSE IF batches[b].cause.typed
      THEN AllRejectedWith(b, batches[b].cause.error)
      ELSE AllRejectedWith(b,
             SRPCError(batches[b].cause.error.message, "INTERNAL_SERVER_ERROR"))

C6_Witness ==
  \E b \in 1..Len(batches) : \E c \in 1..Len(batches) :
    /\ TransportFailed(b) /\ batches[b].failedAt = "fetch" /\ batches[b].cause.typed
    /\ Len(batches[b].reqs) = 2
    /\ TransportFailed(c) /\ batches[c].failedAt = "status"

---------------------------------------------------------------------------
(* The server batch endpoint *)

BatchAnswered ==
  srvPc = "done" /\ srvReq.route = "batch" /\ srvResponse.kind = "batch"

DistinctIds(requests) ==
  \A i \in 1..Len(requests) : \A j \in 1..Len(requests) :
    requests[i].id = requests[j].id => i = j

\* the response item of one request called on its own
InIsolation(req, context) ==
  LET o == call(req.path, context, req.args).outcome IN
  IF o.kind = "ok" THEN OkItem(req.id, o.data)
  ELSE IF o.kind = "typed" THEN ErrItem(req.id, o.error)
  ELSE ErrItem(req.id, SRPCError(o.error.message, "INTERNAL_SERVER_ERROR"))

\* the functions a list of requests invokes when each is called on its own
RECURSIVE EachInvoked(_, _)
EachInvoked(requests, context) ==
  IF requests = <<>> THEN <<>>
  ELSE (IF IsFunction(getRoute(Head(requests).path))
          THEN <<Invocation(getRoute(Head(requests).path), context,
                            Head(requests).args)>>
          ELSE <<>>)
         \o EachInvoked(Tail(requests), context)

\* C7: for a validated batch of K requests with distinct ids, every request
\* id appears in the response exactly once, and that item's ok/data/error
\* equals the outcome of calling its own path with its own args in
\* isolation; an item that fails (typed error, other exception, unknown
\* path) never aborts or changes the execution or result of another item.
C7_ItemsIndependent ==
  (BatchAnswered /\ DistinctIds(srvReq.parsed.requests)) =>
    LET requests == srvReq.parsed.requests
        responses == srvResponse.responses IN
    /\ \A i \in 1..Len(requests) :
         LET at == {j \in 1..Len(responses) : responses[j].id = requests[i].id} IN
         /\ Cardinality(at) = 1
         /\ \A j \in at : responses[j] = InIsolation(requests[i], srvCtx.data)
    /\ srvInvoked = EachInvoked(requests, srvCtx.data)

C7_Witness ==
  /\ BatchAnswered
  /\ DistinctIds(srvReq.parsed.requests)
  /\ Len(srvReq.parsed.requests) = MaxBatchLen
  /\ srvReq.parsed.requests[1].path = <<"failingProcedure">>
  /\ srvReq.parsed.requests[2].path = <<"sayHello">>
  /\ srvReq.parsed.requests[3].path = <<"nope">>
  /\ srvResponse.responses[2].ok

\* an envelope that passes validation
ItemWellFormed(req) ==
  req.t = "object" /\ req.idT = "number" /\ req.pathT = "string"
    /\ req.argsT = "array"

WellFormed(parsed, max) ==
  /\ parsed.t = "object" /\ parsed.hasRequests /\ parsed.isList
  /\ Len(parsed.requests) >= 1
  /\ Len(parsed.requests) <= max
  /\ \A i \in 1..Len(parsed.requests) : ItemWellFormed(parsed.requests[i])

\* handleBatchRequest was entered with a body that decodes
BatchEntered ==
  /\ srvPc \in {"exec", "done"}
  /\ srvReq.route = "batch"
  /\ srvCtx.kind = "ok"
  /\ srvReq.parsed # Garbage

\* C8: the server batch endpoint rejects the whole request with a
\* BAD_REQUEST typed error, before any item's procedure is invoked, whenever
\* the decoded body is not an object with a requests field, requests is not
\* a list, requests is empty, requests is longer than the maximum batch
\* size, or any item lacks a numeric id, a string path or a list args.
C8_MalformedRejected ==
  (BatchEntered /\ ~WellFormed(srvReq.parsed, srvReq.maxBatchSize)) =>
    /\ srvPc = "done"
    /\ srvResponse.kind = "error"
    /\ srvResponse.error.code = "BAD_REQUEST"
    /\ srvResponse.status = 400
    /\ srvInvoked = <<>>
    /\ srvResults = <<>>

C8_Witness ==
  /\ BatchEntered
  /\ srvPc = "done"
  /\ Len(srvReq.parsed.requests) > srvReq.maxBatchSize
  /\ \A i \in 1..Len(srvReq.parsed.requests) :
       ItemWellFormed(srvReq.parsed.requests[i])
  /\ srvResponse.error.code = "BAD_REQUEST"

Is2xx(status) == status >= 200 /\ status <= 299

---------------------------------------------------------------------------
(* Dispatch of paths that name no procedure *)

\* the paths of the procedures registered in the tree under router r
RECURSIVE ProcedurePaths(_)
ProcedurePaths(r) ==
  {k \in DOMAIN Routes(r) : Routes(r)[k].t = "fn"}
    \cup UNION {{k \o p : p \in ProcedurePaths(Routes(r)[k].n)} :
                  k \in {q \in DOMAIN Routes(r) : Routes(r)[q].t = "srpc"}}

\* a single call has been answered, its context and arguments were there
SingleAnswered ==
  /\ srvPc = "done"
  /\ srvReq.route = "single"
  /\ srvCtx.kind = "ok"
  /\ srvReq.parsed # Garbage

\* C10: for every path string that does not identify a procedure
\* registered in the Router tree (including a dotted path one of whose
\* segments is missing at its level), call fails with a NOT_FOUND typed
\* error, no function is invoked, and through the adapter the response
\* status is 404.
C10_UnregisteredNotFound ==
  (SingleAnswered /\ srvReq.path \notin ProcedurePaths("root")) =>
    /\ srvResponse.kind = "error"
    /\ srvResponse.error.code = "NOT_FOUND"
    /\ srvResponse.status = 404
    /\ srvInvoked = <<>>

---------------------------------------------------------------------------
(* Dispatch of registered paths *)

\* the procedure registered under a path of ProcedurePaths(r), found by
\* descending the tree of mappings one name at a time
RECURSIVE ProcedureAt(_, _)
ProcedureAt(r, path) ==
  IF Len(path) = 1 THEN Routes(r)[path]
  ELSE ProcedureAt(Routes(r)[<<Head(path)>>].n, Tail(path))

\* C11: for a Router tree with nested routers, resolving the dot-joined
\* sequence of names that leads to a registered procedure (for example
\* users.admin.createUser) returns exactly that procedure, so call invokes
\* it and no other procedure.
C11_NestedResolution ==
  (/\ srvReq.route = "single"
   /\ srvPc \in {"exec", "done"}
   /\ srvCtx.kind = "ok"
   /\ srvReq.parsed # Garbage
   /\ srvReq.path \in ProcedurePaths("root")) =>
    /\ Len(srvInvoked) = 1
    /\ srvInvoked[1].fn = ProcedureAt("root", srvReq.path)

C11_Witness ==
  /\ SingleAnswered
  /\ srvReq.path = <<"users", "admin", "createUser">>
  /\ Len(srvInvoked) = 1
  /\ srvInvoked[1].fn = Fn("createUser")
  /\ srvResponse.kind = "data"

\* a single call whose path names a registered procedure has been started
RegisteredCalled ==
  /\ srvReq.route = "single"
  /\ srvPc \in {"exec", "done"}
  /\ srvCtx.kind = "ok"
  /\ srvReq.parsed # Garbage
  /\ srvReq.path \in ProcedurePaths("root")

\* what the procedures of the routers return or raise for a context and an
\* argument list, from their declarations
Returns(fn, context, args) ==
  CASE fn = Fn("sayHello") ->
         Fulfilled(<<"Hello">> \o (IF Len(args) >= 1 THEN args[1] ELSE <<"undefined">>))
    [] fn = Fn("failingProcedure") ->
         RejectedTyped(SRPCError(<<"This always fails">>, "BAD_REQUEST"))
    [] fn = Fn("throwing") -> RejectedOther(<<"boom">>)
    [] fn = Fn("failingMultiline") ->
         RejectedTyped(SRPCError(<<"Invalid input", "LF", "try again">>, "FORBIDDEN"))
    [] fn = Fn("failingWith") -> RejectedTyped(SRPCError(<<"raised">>, args[1][1]))
    [] fn = Fn("whoami") -> Fulfilled(context)
    [] fn = Fn("test") -> Fulfilled(<<"undefined">>)
    [] fn \in {Fn("getUser"), Fn("createUser")} ->
         Fulfilled(<<"John Doe">> \o (IF Len(args) >= 1 THEN args[1] ELSE <<"undefined">>))

\* C12: when call resolves a path to a procedure, it invokes that procedure
\* exactly once with the context as first argument followed by the call's
\* args in their original order, and returns the procedure's result (or its
\* raised error) unchanged.
C12_ContextThenArgs ==
  /\ \A n \in 1..Len(srvInvoked) :
       /\ Len(srvInvoked[n].received) >= 1
       /\ srvInvoked[n].received[1] = srvCtx.data
  /\ RegisteredCalled =>
       /\ Len(srvInvoked) = 1
       /\ Len(srvInvoked[1].received) = Len(srvReq.args) + 1
       /\ \A k \in 1..Len(srvReq.args) :
            srvInvoked[1].received[k + 1] = srvReq.args[k]
       /\ srvResults[1] \in
            {Pending, Returns(srvInvoked[1].fn, srvCtx.data, srvReq.args)}
       /\ srvPc = "done" =>
            srvResults[1] = Returns(srvInvoked[1].fn, srvCtx.data, srvReq.args)

C12_Witness ==
  /\ RegisteredCalled
  /\ srvPc = "done"
  /\ srvReq.path = <<"sayHello">>
  /\ srvReq.args = << <<"A">>, <<"B">> >>
  /\ srvInvoked[1].received = << <<"u1">>, <<"A">>, <<"B">> >>
  /\ srvResponse.data = <<"Hello", "A">>

---------------------------------------------------------------------------
(* Failures of a single call through the adapter *)

\* a single call was dispatched and fetch(req) has completed
SingleDispatched ==
  /\ SingleAnswered
  /\ Len(srvResults) = 1

\* C13: when a procedure called through a transport adapter raises a typed
\* error with message m and code c, the single-call response has the status
\* that the static table assigns to c, and its decoded body carries message
\* m and code c.
C13_TypedErrorResponse ==
  (SingleDispatched /\ srvResults[1].kind = "typed") =>
    /\ srvResponse.kind = "error"
    /\ srvResponse.status = StatusCodeMap(srvResults[1].error.code)
    /\ srvResponse.error.message = srvResults[1].error.message
    /\ srvResponse.error.code = srvResults[1].error.code

---------------------------------------------------------------------------
(* Typed errors from procedure to caller *)

\* the k-th call of a finished round trip ran a registered procedure that
\* raised a typed error
RaisedTyped(k) ==
  /\ rtPc = "done"
  /\ k \in 1..Len(srvResults)
  /\ rtCalls[k].path \in ProcedurePaths("root")
  /\ srvResults[k].kind = "typed"

\* C14: a typed error raised by a server procedure reaches the calling
\* client as a typed error with the same message and the same code, both
\* through the direct link and through the batching link.
C14_ErrorRoundTrip ==
  \A k \in 1..Len(rtCalls) : RaisedTyped(k) =>
    /\ rtOutcomes[k].kind = "reject"
    /\ rtOutcomes[k].error.message = srvResults[k].error.message
    /\ rtOutcomes[k].error.code = srvResults[k].error.code

\* C15: when a procedure called through a transport adapter raises an
\* exception that is not a typed error, the adapter does not propagate it:
\* it returns a failure response with status 500 whose body is a typed error
\* with code INTERNAL_SERVER_ERROR.
C15_OtherExceptionIs500 ==
  (SingleDispatched /\ srvResults[1].kind = "untyped") =>
    /\ srvResponse.kind = "error"
    /\ srvResponse.status = 500
    /\ srvResponse.error.code = "INTERNAL_SERVER_ERROR"

C15_Witness ==
  /\ SingleDispatched
  /\ srvReq.path = <<"throwing">>
  /\ srvInvoked[1].fn = Fn("throwing")
  /\ srvResults[1] = RejectedOther(<<"boom">>)
  /\ srvResponse.status = 500

---------------------------------------------------------------------------
(* Methods other than POST *)

\* C16: both transport adapters (srpcFetchApi and createSrpcServer) answer
\* every request whose method is not POST with a 'method not allowed' (405)
\* outcome, and in that case no procedure is dispatched.
C16_NonPostIs405 ==
  (srvReq.route # "none" /\ srvReq.method # "POST") =>
    /\ srvInvoked = <<>>
    /\ srvPc = "done" => srvResponse.status = 405

---------------------------------------------------------------------------
(* The call interceptors *)

\* the last step was an invocation of the intercepted value
Applied == pxOp.op = "apply"

\* C17: for any chain of N >= 1 accessed names followed by one invocation
\* with any argument list, the interceptor invokes the handler exactly
\* once, with path equal to the accessed names in access order and args
\* equal to the call's arguments in order, and the invocation evaluates to
\* what the handler returned.
C17_InvokedOnceWithPath ==
  [][Applied' =>
       LET record == [path |-> pxNames, args |-> pxOp'.args] IN
       /\ Len(pxNames) >= 1
       /\ pxCalls' = Append(pxCalls, record)
       /\ pxLast' = Handler(record)]_vars

C17_Witness ==
  /\ Applied
  /\ pxCalls = << [path |-> <<"test", "hello">>, args |-> <<"a", "b">>] >>
  /\ pxLast = Handler(pxCalls[1])

\* text is the names joined with ".": a name at every odd position, in
\* order, and a "." at every even one
IsDotJoined(text, names) ==
  /\ Len(text) = 2 * Len(names) - 1
  /\ \A i \in 1..Len(names) : text[2 * i - 1] = names[i]
  /\ \A i \in 1..(Len(names) - 1) : text[2 * i] = "."

\* C18: converting an intercepted value with accumulated path p to a
\* display string yields p joined with ".", converting it to a serializable
\* form yields a tagged object that contains p and its dot-joined string,
\* and neither conversion invokes the handler.
C18_Conversions ==
  [][/\ pxOp'.op = "toString" =>
          /\ pxLast'.kind = "string"
          /\ IsDotJoined(pxLast'.text, pxNames)
          /\ pxCalls' = pxCalls
     /\ pxOp'.op = "toJSON" =>
          /\ pxLast'.kind = "json"
          /\ pxLast'.tag = "SRPC"
          /\ pxLast'.path = pxNames
          /\ IsDotJoined(pxLast'.text, pxNames)
          /\ pxCalls' = pxCalls]_vars

C18_Witness ==
  /\ pxOp.op = "toJSON"
  /\ pxNames = <<"test", "hello">>
  /\ pxLast = Value("json", "SRPC", <<"test", "hello">>, <<"test", ".", "hello">>, <<>>)

C18_WitnessString ==
  /\ pxOp.op = "toString"
  /\ pxNames = <<"test", "hello">>
  /\ pxLast.text = <<"test", ".", "hello">>

\* the last step read the property named "then" or a symbol key
Probed == pxOp.op \in {"get", "flatGet"} /\ (pxOp.key.t = "symbol" \/ pxOp.key.n = "then")

\* C19: probing an intercepted value for the property named "then", or for
\* any symbol key, yields undefined, invokes neither the handler nor the
\* flat interceptor's callback, and does not extend the path.
C19_ProbesAreInert ==
  [][Probed' =>
       /\ pxLast' = UndefinedValue
       /\ pxCalls' = pxCalls
       /\ pxFlatCalls' = pxFlatCalls
       /\ pxPath' = pxPath]_vars

C19_Witness ==
  /\ Probed
  /\ pxOp.key.n = "then"
  /\ pxPath = <<"test">>
  /\ pxLast = UndefinedValue

---------------------------------------------------------------------------
(* The statuses of typed errors *)

\* the status of each of the eight codes
StatusOf ==
  ("BAD_REQUEST" :> 400) @@ ("UNAUTHORIZED" :> 401) @@ ("FORBIDDEN" :> 403)
    @@ ("NOT_FOUND" :> 404) @@ ("UNSUPPORTED_MEDIA_TYPE" :> 415)
    @@ ("INTERNAL_SERVER_ERROR" :> 500) @@ ("NOT_IMPLEMENTED" :> 501)
    @@ ("GENERIC_ERROR" :> 500)

\* C20: the mapping from error codes to statuses assigns BAD_REQUEST 400,
\* UNAUTHORIZED 401, FORBIDDEN 403, NOT_FOUND 404, UNSUPPORTED_MEDIA_TYPE
\* 415, INTERNAL_SERVER_ERROR 500, NOT_IMPLEMENTED 501 and GENERIC_ERROR
\* 500, and every failure response produced for a typed error with one of
\* these codes has the status of its code.
C20_StatusOfCode ==
  /\ (srvPc = "done" /\ srvResponse.kind = "error") =>
       /\ srvResponse.error.code \in ErrorCodes
       /\ srvResponse.status = StatusOf[srvResponse.error.code]
  /\ (SingleDispatched /\ srvResults[1].kind = "typed"
        /\ srvResponse.kind = "error") =>
       srvResponse.status = StatusOf[srvResults[1].error.code]

C20_Witness ==
  /\ SingleDispatched
  /\ srvReq.path = <<"failingWith">>
  /\ srvResults[1] = RejectedTyped(SRPCError(<<"raised">>, "UNSUPPORTED_MEDIA_TYPE"))
  /\ srvResponse.kind = "error"
  /\ srvResponse.status = 415

---------------------------------------------------------------------------
(* The context-creation hook *)

\* whenever a procedure is dispatched, createContext has been called once
\* and has returned, and every function invoked for the request received
\* the value it returned as its first argument
HookBeforeDispatch ==
  /\ srvInvoked # <<>> => (srvHooks = 1 /\ srvCtx.kind = "ok")
  /\ \A n \in 1..Len(srvInvoked) : srvInvoked[n].received[1] = srvCtx.data

\* the request is one createSrpcServer answers with 405 for its method
RefusedForMethod == srvReq.via = "socket" /\ srvReq.method # "POST"

\* C21 (as stated): the context-creation hook is invoked exactly once per
\* inbound request and before any procedure of that request is dispatched;
\* for a batch request it is invoked once, and the context value it returns
\* is the first argument of every item's procedure.
C21_Original ==
  /\ srvReq.route # "none" => srvHooks = 1
  /\ HookBeforeDispatch

\* C21 (amended): the context-creation hook is invoked exactly once for
\* every inbound request except the ones createSrpcServer refuses for their
\* method, for which it is not invoked at all; it is invoked and has
\* returned before any procedure of the request is dispatched, and for a
\* batch request the one value it returned is the first argument of every
\* item's procedure.
C21_HookOncePerServedRequest ==
  /\ srvReq.route # "none" => srvHooks = (IF RefusedForMethod THEN 0 ELSE 1)
  /\ srvReq.route = "none" => srvHooks = 0
  /\ HookBeforeDispatch

C21_Witness ==
  /\ srvPc = "done"
  /\ srvReq.route = "batch"
  /\ srvHooks = 1
  /\ Len(srvInvoked) = 3
  /\ \A n \in 1..3 : srvInvoked[n].received[1] = <<"u1">>

---------------------------------------------------------------------------
(* Failure responses in the direct link *)

\* a call through the direct link has settled and its response had a
\* status that is no success
DirectNonSuccess ==
  /\ rtPc = "done"
  /\ rtLink = "direct"
  /\ ~rtWire[1].failed
  /\ ~rtWire[1].ok

\* C22: in the direct link, every call whose response has a non-success
\* status is rejected with a typed error: the reconstructed typed error
\* when the decoded body carries the typed-error tag, and otherwise a typed
\* error with code GENERIC_ERROR whose message is the transport's status
\* text, whatever the body contains.
C22_NonSuccessIsTyped ==
  DirectNonSuccess =>
    /\ rtOutcomes[1].kind = "reject"
    /\ rtWire[1].branded =>
         /\ rtOutcomes[1].error.message = rtWire[1].error.message
         /\ rtOutcomes[1].error.code = rtWire[1].error.code
    /\ ~rtWire[1].branded =>
         /\ rtOutcomes[1].error.code = "GENERIC_ERROR"
         /\ rtOutcomes[1].error.message =
              (IF rtWire[1].statusText = <<>> THEN <<"Unknown error">>
               ELSE rtWire[1].statusText)

---------------------------------------------------------------------------
(* Routers are not changed after construction *)

\* C23: router(table) and context() each return a new SRPC instance;
\* neither changes the mapping of the instance they are called on, and no
\* operation changes the mapping of an instance after its construction.
C23_RoutersImmutable ==
  [][/\ Len(routers') >= Len(routers)
     /\ \A i \in 1..Len(routers) : routers'[i] = routers[i]
     /\ bldOp'.op \in {"context", "router"} =>
          /\ Len(routers') = Len(routers) + 1
          /\ bldOp'.ref = Len(routers) + 1
          /\ bldOp'.ref # bldOp'.on]_vars

C23_Witness ==
  /\ bldOp.op = "router"
  /\ routers[bldOp.on].has
  /\ routers[bldOp.ref].has
  /\ routers[bldOp.ref].routes # routers[bldOp.on].routes

---------------------------------------------------------------------------
(* Remote calls and in-process calls *)

\* how the first call of the round trip settles when it is made through
\* createSRPCCaller with the context the hook returned
Local == CallerOutcome(rtCalls[1].path, srvCtx.data, rtCalls[1].args)

\* a call of a registered procedure through the direct link has settled,
\* and in process it returns a value or raises a typed error
DirectSettled ==
  /\ rtPc = "done"
  /\ rtLink = "direct"
  /\ srvCtx.kind = "ok"
  /\ rtCalls[1].path \in ProcedurePaths("root")
  /\ Local.kind \in {"resolve", "reject"}

\* C24: for any registered path and argument list, a call made through the
\* client interceptor, the direct link and the request/response adapter
\* settles with the same value, or with a typed error of the same message
\* and code, as the same call made in-process through createSRPCCaller
\* with the same context.
C24_RemoteAsLocal ==
  DirectSettled =>
    /\ rtOutcomes[1].kind = Local.kind
    /\ rtOutcomes[1].data = Local.data
    /\ rtOutcomes[1].error.message = Local.error.message
    /\ rtOutcomes[1].error.code = Local.error.code

\* (the same, for the calls other than the two that diverge)
C24_ExceptVoidAndMultiline ==
  (DirectSettled /\ rtCalls[1].path \notin {<<"test">>, <<"failingMultiline">>})
    => C24_RemoteAsLocal

---------------------------------------------------------------------------
(* Captures while a batch is in flight *)

\* a batch whose flush has not finished
InFlight(b) == b \in 1..Len(batches) /\ ~Finished(b)

\* in how many snapshots, and in the buffer, the call with the id is held
HeldIn(id) ==
  Cardinality({b \in 1..Len(batches) : id \in IdsOf(batches[b].reqs)})
    + (IF id \in IdsOf(pendingRequests) THEN 1 ELSE 0)

\* every captured call is in the buffer or in the snapshot of one batch,
\* and no snapshot or buffer holds a call twice
HeldOnce ==
  /\ \A id \in 1..requestIdCounter : HeldIn(id) = 1
  /\ \A b \in 1..Len(batches) :
       Cardinality(IdsOf(batches[b].reqs)) = Len(batches[b].reqs)
  /\ Cardinality(IdsOf(pendingRequests)) = Len(pendingRequests)

\* the step captures a call
Captures == requestIdCounter' = requestIdCounter + 1

\* C25: a call captured while an earlier batch of the link is in flight is
\* never added to that batch: it starts a new collecting phase with its own
\* timer (or a batch of its own when one call fills a batch); over captures
\* and flushes every captured call is held in exactly one snapshot, none
\* lost and none sent twice.
C25_NoCoalescing ==
  /\ []HeldOnce
  /\ [][/\ \A b \in 1..Len(batches) : batches'[b].reqs = batches[b].reqs
        /\ (Captures /\ pendingRequests = <<>>
              /\ \E b \in 1..Len(batches) : InFlight(b)) =>
             IF maxBatchSize > 1
               THEN /\ IdsOf(pendingRequests') = {requestIdCounter'}
                    /\ timeoutId' # 0
                    /\ timeoutId' \notin timers
                    /\ batches' = batches
               ELSE /\ Len(batches') = Len(batches) + 1
                    /\ IdsOf(Last(batches').reqs) = {requestIdCounter'}]_vars

C25_Witness ==
  /\ Len(batches) = 1
  /\ InFlight(1)
  /\ IdsOf(batches[1].reqs) = {1, 2}
  /\ IdsOf(pendingRequests) = {3}
  /\ timeoutId # 0

---------------------------------------------------------------------------
(* The flush timer *)

\* C26: after every capture, timer expiry or flush of one link instance, a
\* flush timer is armed if and only if the pending buffer is non-empty, and
\* at most one timer is armed at any time: capturing while a timer is armed
\* never arms a second one.
C26_TimerIffPending ==
  /\ [](/\ (timeoutId # 0) <=> (pendingRequests # <<>>)
        /\ Cardinality(timers) <= 1
        /\ timers = (IF timeoutId # 0 THEN {timeoutId} ELSE {}))
  /\ [][(Captures /\ timeoutId # 0) =>
          (timers' \subseteq timers /\ timeoutId' \in {0, timeoutId})]_vars

C26_Witness ==
  /\ Len(pendingRequests) = 2
  /\ timeoutId = 1
  /\ timers = {1}

---------------------------------------------------------------------------
(* Request ids *)

\* the ids of the requests increase along the list
Increasing(reqs) == \A k \in 1..(Len(reqs) - 1) : reqs[k].id < reqs[k + 1].id

\* C27: request ids are taken from a counter of the link instance that
\* increases by one on every captured call, so the ids inside one batch
\* envelope are pairwise distinct and appear in capture order.
C27_IdsFromCounter ==
  /\ [](/\ Increasing(pendingRequests)
        /\ \A b \in 1..Len(batches) :
             /\ Increasing(batches[b].reqs)
             /\ \A n \in 1..Len(batches[b].sent) :
                  /\ Increasing(batches[b].sent[n].requests)
                  /\ IdsOf(batches[b].sent[n].requests) = IdsOf(batches[b].reqs))
  /\ [][/\ requestIdCounter' \in {requestIdCounter, requestIdCounter + 1}
        /\ Len(settled') # Len(settled) =>
             /\ requestIdCounter' = requestIdCounter + 1
             /\ \/ /\ pendingRequests' # <<>>
                   /\ Last(pendingRequests').id = requestIdCounter'
                \/ /\ Len(batches') = Len(batches) + 1
                   /\ Last(Last(batches').reqs).id = requestIdCounter']_vars

C27_Witness ==
  /\ Len(batches) >= 1
  /\ Len(batches[1].sent) = 1
  /\ Len(batches[1].sent[1].requests) = 3
  /\ \A k \in 1..3 : batches[1].sent[1].requests[k].id = k

---------------------------------------------------------------------------
(* The order of the items of a batch response *)

\* C28: the response envelope built by the server batch endpoint has
\* exactly as many items as the request envelope, and its i-th item carries
\* the id of the i-th request, whatever order the items' procedures
\* complete in.
C28_ItemsInRequestOrder ==
  BatchAnswered =>
    /\ Len(srvResponse.responses) = Len(srvReq.parsed.requests)
    /\ \A i \in 1..Len(srvReq.parsed.requests) :
         srvResponse.responses[i].id = srvReq.parsed.requests[i].id

C28_Witness ==
  /\ BatchAnswered
  /\ Len(srvReq.parsed.requests) = 3
  /\ srvReq.parsed.requests[1].id = 3
  /\ srvReq.parsed.requests[2].id = 1
  /\ srvReq.parsed.requests[3].id = 3
  /\ srvResponse.responses[1].id = 3
  /\ srvResponse.responses[2].id = 1
  /\ srvResponse.responses[2].ok
  /\ ~srvResponse.responses[3].ok

---------------------------------------------------------------------------
(* The failure items of a batch response *)

\* C29: in a batch response, an item whose procedure raised a typed error
\* carries exactly that error's message and code; an item whose procedure
\* raised any other exception carries that exception's message with code
\* INTERNAL_SERVER_ERROR; an item whose path is not registered carries code
\* NOT_FOUND; no failure item contains a stack trace.
C29_FailureItems ==
  BatchAnswered =>
    \A i \in 1..Len(srvReq.parsed.requests) :
      LET req == srvReq.parsed.requests[i]
          item == srvResponse.responses[i]
          registered == req.path \in ProcedurePaths("root") IN
      /\ (registered /\ srvResults[i].kind = "typed") =>
           /\ ~item.ok
           /\ item.error.message = srvResults[i].error.message
           /\ item.error.code = srvResults[i].error.code
      /\ (registered /\ srvResults[i].kind = "untyped") =>
           /\ ~item.ok
           /\ item.error.message = srvResults[i].error.message
           /\ item.error.code = "INTERNAL_SERVER_ERROR"
      /\ ~registered => (~item.ok /\ item.error.code = "NOT_FOUND")
      /\ ~item.ok => DOMAIN item.error = {"message", "code"}

---------------------------------------------------------------------------
(* Paths that equal a top-level key *)

\* C30: if the path string exactly equals a top-level key of the root
\* router's mapping, getRoute returns that entry directly, without
\* splitting on ".", even when a segment-by-segment walk of the same string
\* would reach a different node or none.
C30_TopLevelKeyFirst ==
  (resolved.router # "none" /\ resolved.path \in DOMAIN Routes(resolved.router)) =>
    resolved.route = Routes(resolved.router)[resolved.path]

C30_Witness ==
  /\ resolved.router = "dotted"
  /\ resolved.path = <<"users", "getUser">>
  /\ resolved.route = Fn("users.getUser")
  /\ Walk(RoutesOf("dotted"), resolved.path) = Fn("getUser")

C30_WitnessNone ==
  /\ resolved.router = "dotted"
  /\ resolved.path = <<"users", "list">>
  /\ resolved.route = Fn("users.list")
  /\ ~Truthy(Walk(RoutesOf("dotted"), resolved.path))

---------------------------------------------------------------------------
(* Dispatch of paths that name a router *)

\* the paths that lead to a nested router in the tree under router r
RECURSIVE RouterPaths(_)
RouterPaths(r) ==
  LET nested == {k \in DOMAIN Routes(r) : Routes(r)[k].t = "srpc"} IN
  nested \cup UNION {{k \o p : p \in RouterPaths(Routes(r)[k].n)} : k \in nested}

\* the names of path occur in message, in their order and side by side
Contains(message, path) ==
  \E k \in 1..(Len(message) - Len(path) + 1) :
    SubSeq(message, k, k + Len(path) - 1) = path

\* a single call was dispatched and its promise has settled
SingleSettled ==
  /\ srvReq.route = "single"
  /\ srvPc \in {"exec", "done"}
  /\ Len(srvResults) = 1
  /\ srvResults[1] # Pending

\* C31: when the path of a call resolves to a node that is not invokable,
\* in particular to a nested router (users, users.admin), call fails with
\* a NOT_FOUND typed error whose message contains the attempted path, and
\* no function is invoked.
C31_RouterNotInvokable ==
  (/\ SingleSettled
   /\ \/ srvReq.path \in RouterPaths("root")
      \/ ~IsFunction(getRoute(srvReq.path))) =>
    /\ srvResults[1].kind = "typed"
    /\ srvResults[1].error.code = "NOT_FOUND"
    /\ Contains(srvResults[1].error.message, srvReq.path)
    /\ srvInvoked = <<>>

C31_Witness ==
  /\ SingleSettled
  /\ srvReq.path = <<"users", "admin">>
  /\ srvResults[1].error = SRPCError(<<"Route", "users", "admin", "not found">>, "NOT_FOUND")
  /\ srvInvoked = <<>>

---------------------------------------------------------------------------
(* Failures before the dispatch: the hook and the body *)

\* fetch of srpcFetchApi has finished with the request it was given
FetchFinished == srvPc = "done" /\ srvReq.via = "fetch"

\* the hook failed, or it returned and the body did not decode
HookFailed == srvCtx.kind \in {"typed", "untyped"}
BodyUndecodable == srvCtx.kind = "ok" /\ srvReq.parsed = Garbage

\* C32: fetch of the request/response adapter completes with a response
\* for every request: when the context-creation hook fails or the body
\* cannot be decoded, the failure is returned as a failure response (status
\* mapped from the code of a typed error, otherwise 500
\* INTERNAL_SERVER_ERROR) and does not propagate out of the adapter, in
\* the single-call path as in the batch path.
C32_FailuresBecomeResponses ==
  FetchFinished =>
    /\ srvResponse.kind # "rejected"
    /\ (HookFailed \/ BodyUndecodable) =>
         /\ srvResponse.kind = "error"
         /\ srvResponse.status =
              IF srvCtx.kind = "typed" THEN StatusCodeMap(srvCtx.error.code) ELSE 500
         /\ srvCtx.kind # "typed" => srvResponse.error.code = "INTERNAL_SERVER_ERROR"

---------------------------------------------------------------------------
(* The body of a single-call failure response *)

\* a single call failed and the adapter answered with a failure response
SingleFailureAnswered ==
  /\ srvPc = "done"
  /\ srvReq.route = "single"
  /\ Len(srvResults) = 1
  /\ srvResults[1].kind \in {"typed", "untyped"}
  /\ srvResponse.kind = "error"

\* C33: the decoded body of every single-call failure response contains
\* the typed-error tag, the message of the error and its code, and never a
\* stack trace: for typed errors raised by a procedure, for NOT_FOUND
\* dispatch failures, and for other exceptions normalized to
\* INTERNAL_SERVER_ERROR, whose original message is preserved in the body.
C33_FailureBodyFields ==
  SingleFailureAnswered =>
    /\ {"__BRAND__", "message", "code"} \subseteq EncodedKeys(srvResults[1])
    /\ srvResponse.error.message = srvResults[1].error.message
    /\ srvResponse.error.code =
         IF srvResults[1].kind = "typed" THEN srvResults[1].error.code
         ELSE "INTERNAL_SERVER_ERROR"
    /\ EncodedStack(srvResults[1]) \in {Null, Undefined}

---------------------------------------------------------------------------
(* The socket adapter against the request/response adapter *)

\* what fetch of srpcFetchApi answers to a POST request when its hook
\* returns the context: the response as a function of the two
FetchAnswer(req, context) ==
  IF req.parsed = Garbage
    THEN IF req.route = "batch"
           THEN ErrorResponse(RejectedOther(<<"Unexpected token">>))
           ELSE FetchRejects(SRPCError(<<"Unexpected token">>, ""))
  ELSE IF req.route = "batch" /\ ValidateBatch(req.parsed, req.maxBatchSize) # NoError
    THEN ErrorResponse(RejectedTyped(ValidateBatch(req.parsed, req.maxBatchSize)))
  ELSE LET results == [i \in 1..Len(CallsOf(req)) |->
                         call(CallsOf(req)[i].path, context, CallsOf(req)[i].args).outcome]
       IN IF req.route = "batch" THEN BatchResponse(req.parsed.requests, results)
          ELSE IF results[1].kind = "ok" THEN DataResponse(results[1].data)
          ELSE ErrorResponse(results[1])

\* a POST request has been answered and its hook had produced a context
PostAnswered(via) ==
  /\ srvPc = "done"
  /\ srvReq.method = "POST"
  /\ srvReq.via = via
  /\ srvCtx.kind = "ok"

C34_WitnessBatch ==
  /\ PostAnswered("socket")
  /\ srvReq.route = "batch"
  /\ srvResponse.kind = "batch"
  /\ srvResponse.responses[1].error.code = "BAD_REQUEST"

C34_WitnessFailure ==
  /\ PostAnswered("socket")
  /\ srvReq.path = <<"failingProcedure">>
  /\ srvResponse.status = 400

---------------------------------------------------------------------------
(* The batch endpoint *)

\* the pathname lies under {endpoint}/
Under(pathname, endpoint) == Occurs(pathname, endpoint \o <<"/">>, 1)

Routed == routed.branch # "none"

\* C35: a request is handled by the batch endpoint if and only if its
\* path exactly equals {endpoint}{batchPath} (the default /_batch or the
\* one configured): such a request is never dispatched as a single call,
\* whatever procedures are registered, and every other request under
\* {endpoint}/ is dispatched as a single call with the remainder of its
\* path.
C35_BatchPathExact ==
  Routed =>
    /\ routed.branch = "batch" <=>
         routed.pathname = routed.endpoint \o routed.batchEndpoint
    /\ routed.branch = "batch" => routed.path = <<>>
    /\ (/\ Under(routed.pathname, routed.endpoint)
        /\ routed.pathname # routed.endpoint \o routed.batchEndpoint) =>
         /\ routed.branch = "single"
         /\ routed.endpoint \o <<"/">> \o routed.path = routed.pathname

C35_Witness ==
  /\ routed.batchEndpoint = <<"/", "bulk">>
  /\ routed.pathname = <<"/", "api", "/", "bulk">>
  /\ routed.branch = "batch"

C35_WitnessSingle ==
  /\ routed.batchEndpoint = <<"/", "bulk">>
  /\ routed.pathname = <<"/", "api", "/", "_batch">>
  /\ routed.branch = "single"
  /\ routed.path = <<"_batch">>

C35_WitnessLonger ==
  /\ routed.endpoint = <<"/", "api">>
  /\ routed.batchEndpoint = <<"/", "_batch">>
  /\ routed.pathname = <<"/", "api", "/", "_batch", "x">>
  /\ routed.branch = "single"
  /\ routed.path = <<"_batch", "x">>

---------------------------------------------------------------------------
(* The size of the envelopes the link sends *)

\* the envelopes the link has handed to fetchFn so far
Envelopes ==
  UNION {{batches[b].sent[k].requests : k \in 1..Len(batches[b].sent)} :
           b \in 1..Len(batches)}

\* a batch of the given size was flushed for the given reason and sent
SentWith(trigger, n) ==
  \E b \in 1..Len(batches) :
    /\ batches[b].trigger = trigger
    /\ Len(batches[b].sent) = 1
    /\ Len(batches[b].sent[1].requests) = n

\* C36: no batch envelope sent by a link configured with maxBatchSize >= 1
\* contains more than maxBatchSize requests, for any sequence and timing of
\* captured calls (maxBatchSize being a number of requests).
C36_EnvelopeWithinMax ==
  /\ \A requests \in Envelopes : Len(requests) <= maxBatchSize
  /\ \A b \in 1..Len(batches) : Len(batches[b].reqs) <= maxBatchSize
  /\ Len(pendingRequests) < maxBatchSize

C36_Witness ==
  /\ maxBatchSize = 2
  /\ SentWith("size", maxBatchSize)
  /\ SentWith("timer", 1)

---------------------------------------------------------------------------
(* Batches in flight at the same time *)

\* the flushes whose await completes in the step
Completing == {b \in 1..Len(batches) : batches'[b] # batches[b]}

\* C37: when two batches of one link are in flight at the same time and
\* their transports complete in any order, each completion settles only
\* the pending requests of its own snapshot: a response or a transport
\* failure of one batch never resolves or rejects a call that belongs to
\* another batch or that is still in the buffer.
C37_OwnSnapshotOnly ==
  [][\A i \in DOMAIN settled :
       settled'[i] # settled[i] =>
         /\ Len(settled'[i]) = Len(settled[i]) + 1
         /\ \E b \in Completing :
              /\ Completing = {b}
              /\ Last(settled'[i]).batch = b
              /\ i \in IdsOf(batches[b].reqs)
         /\ i \notin IdsOf(pendingRequests)]_vars

\* the second batch has completed while the first is still in flight and a
\* later call waits in the buffer: only the calls of the second are settled
C37_Witness ==
  /\ Len(batches) = 2
  /\ InFlight(1)
  /\ Finished(2)
  /\ pendingRequests # <<>>
  /\ \A i \in IdsOf(batches[2].reqs) : Len(settled[i]) = 1
  /\ \A i \in IdsOf(batches[1].reqs) \cup IdsOf(pendingRequests) : settled[i] = <<>>

\* the first batch has failed while the second is still in flight
C37_WitnessFailure ==
  /\ Len(batches) = 2
  /\ batches[1].stage = "failed"
  /\ InFlight(2)
  /\ \A i \in IdsOf(batches[1].reqs) : Len(settled[i]) = 1
  /\ \A i \in IdsOf(batches[2].reqs) : settled[i] = <<>>

---------------------------------------------------------------------------
(* Envelopes are never empty *)

\* C38: the link never issues a transport request with an empty requests
\* list: every batch envelope it sends contains at least one request, so
\* the "Batch cannot be empty" rejection of the server is never caused by
\* the link.
C38_EnvelopeNotEmpty ==
  /\ \A requests \in Envelopes :
       /\ requests # <<>>
       /\ ValidateBatch(Envelope([k \in 1..Len(requests) |->
                                    ValidItem(requests[k].id, requests[k])]),
                        MaxCalls)
            # SRPCError(<<"Batch cannot be empty">>, "BAD_REQUEST")
  /\ \A b \in 1..Len(batches) : batches[b].reqs # <<>>

\* the timer fired for a single buffered call and its envelope was sent
C38_Witness ==
  /\ maxBatchSize > 1
  /\ \E b \in 1..Len(batches) :
       /\ batches[b].trigger = "timer"
       /\ Len(batches[b].sent) = 1
       /\ Len(batches[b].sent[1].requests) = 1
       /\ batches[b].sent[1].requests = batches[b].reqs

---------------------------------------------------------------------------
(* Intercepted values keep their own paths *)

\* the invocations made so far started from the kept value and continued
\* with the names given
ChainsFrom(kept, first, second) ==
  /\ Len(pxCalls) = 2
  /\ pxCalls[1].path = kept \o first
  /\ pxCalls[2].path = kept \o second

\* C39: each value the Call Interceptor produces remembers its own
\* accumulated path and is never changed by later accesses: when two
\* chains are continued from one intermediate value, each invocation hands
\* the handler the names of its own chain only, in any order of use.
C39_ValuesKeepTheirPath ==
  /\ [](pxKept.held => pxKept.path = pxKept.names)
  /\ [][/\ pxKept.held => pxKept' = pxKept
        /\ Applied' /\ pxCalls' # pxCalls => Last(pxCalls').path = pxNames]_vars

\* a = client.test; a.hello(...) and then a.test(...): the handler got
\* test.hello and test.test
C39_Witness ==
  /\ pxKept.held
  /\ pxKept.names = <<"test">>
  /\ ChainsFrom(<<"test">>, <<"hello">>, <<"test">>)

\* the same two chains used in the other order
C39_WitnessOtherOrder ==
  /\ pxKept.held
  /\ pxKept.names = <<"test">>
  /\ ChainsFrom(<<"test">>, <<"test">>, <<"hello">>)

====
